---------------------------- MODULE Spec2Model ----------------------------
(***************************************************************************)
(* TextCorrector: hotkey-triggered clipboard correction workflow.          *)
(*                                                                         *)
(* Texts are run-length encoded strings: a sequence of runs [ch, n] in     *)
(* which adjacent runs carry different characters and every n > 0, so two  *)
(* texts are equal exactly when the strings they stand for are equal, and  *)
(* a text of 10,000 characters is one run.                                 *)
(***************************************************************************)
EXTENDS Integers, Sequences, FiniteSets, TLC

VARIABLES
    svc_in,             \* the (text, language) a caller hands to the domain service
    svc_out,            \* what the last domain-service call produced
    clipboard,          \* the system clipboard's content (single slot, shared)
    clipboard_backend,  \* ClipboardService.clipboard_backend ("unset" is None, before selection)
    probed,             \* candidates whose init function has been called, in order, with the outcome
    handles,            \* library handles the service holds (_pyclip, _pyperclip)
    api_ret,            \* result of the last direct call on the ClipboardService
    current_settings,   \* TextCorrectionApp.current_settings
    ui_queue,           \* NotificationService.ui_queue
    nthreads,           \* worker threads started so far by hotkey_callback
    pc,                 \* per worker thread: its position in execute
    loc,                \* per worker thread: the locals of execute
    calls,              \* per worker thread: the collaborator calls execute has made
    active_notifications, \* NotificationService.active_notifications: the toast windows
    ui_pc,              \* the UI thread's position in process_queue / the main loop
    quit,               \* root.quit() has been called
    enqueued,           \* per producer thread: the items it has put on ui_queue
    drained,            \* the items process_queue has taken off ui_queue, in order
    touched,            \* who created, changed or destroyed toasts: (thread, operation)
    hotkey,             \* HotkeyListener.hotkey: the configured string, as characters
    app_pc,             \* the main thread's position in TextCorrectionApp.run
    dialogs,            \* titles of the error dialogs shown to the operator
    tray_is_running,    \* SystemTrayManager._is_running
    listener_pc,        \* the HotkeyListener thread's position in start
    hk_keys,            \* HotKey._keys: the parsed chord
    stop_event,         \* HotkeyListener.stop_event is set
    hk_state,           \* HotKey._state: the chord keys the tracker holds as pressed
    keys_down,          \* the keys physically held
    callback_threads,   \* threads started by _on_hotkey_pressed that have not run yet
    dispatched,         \* how often _on_hotkey_pressed was called
    completions,        \* how often a key-down completed the chord on the keyboard
    ran_on,             \* which kind of thread has run which handler: (op, thread)
    tick_start,         \* how many items were queued when the running drain tick began
    tick_drained,       \* how many items the running drain tick has dequeued (0: none runs)
    file,               \* the settings file (settings.json)
    tmp_file,           \* its temporary sibling (settings.tmp)
    corrupted_file,     \* its diagnostic sibling (settings.corrupted)
    store_ret,          \* what the last call on the SettingsRepository produced
    save_pc,            \* the position of a save in progress, with its argument
    rounds,             \* the file's content after each save(load()) made so far
    settings_hotkey,    \* current_settings.hotkey
    windows,            \* the toasts whose Toplevel window exists
    shutdown_pc         \* where the tray thread is in _shutdown

svcVars == <<svc_in, svc_out>>
clipVars == <<clipboard, clipboard_backend, probed, handles, api_ret>>
appVars == <<current_settings, ui_queue, nthreads, pc, loc, calls>>
uiVars == <<active_notifications, ui_pc, quit, enqueued, drained, touched>>
startVars == <<hotkey, app_pc, dialogs, tray_is_running, listener_pc, hk_keys,
               stop_event>>
keyVars == <<hk_state, keys_down, callback_threads, dispatched, completions, ran_on>>
tickVars == <<tick_start, tick_drained>>
storeVars == <<file, tmp_file, corrupted_file, store_ret, save_pc, rounds>>
toastVars == <<windows, shutdown_pc>>
extVars == <<storeVars, settings_hotkey, toastVars>>
presVars == <<uiVars, startVars, keyVars, tickVars, extVars>>
vars == <<svc_in, svc_out, clipboard, clipboard_backend, probed, handles,
          api_ret, current_settings, ui_queue, nthreads, pc, loc, calls,
          active_notifications, ui_pc, quit, enqueued, drained, touched,
          hotkey, app_pc, dialogs, tray_is_running, listener_pc, hk_keys, stop_event,
          hk_state, keys_down, callback_threads, dispatched, completions, ran_on,
          tick_start, tick_drained,
          file, tmp_file, corrupted_file, store_ret, save_pc, rounds,
          settings_hotkey, windows, shutdown_pc>>

---------------------------------------------------------------------------
(* Bounds *)

MaxRuns == 2
MaxWorkers == 1
MaxProducers == 2
MaxToasts == 3
MaxTokens == 2
MaxTriggers == 2

(* Program constants *)

MaxTextLen == 10000
PreviewMax == 80
NOTIFICATION_DURATION == 4000
NotificationHeight == 120
StackGap == 10
StartupDuration == 5000

---------------------------------------------------------------------------
(* Strings *)

Run(c, k) == [ch |-> c, n |-> k]

EmptyText == << >>

IsSpace(c) == c = " "

RECURSIVE TextLen(_)
TextLen(t) == IF t = << >> THEN 0 ELSE Head(t).n + TextLen(Tail(t))

RECURSIVE LStrip(_)
LStrip(t) == IF t # << >> /\ IsSpace(Head(t).ch) THEN LStrip(Tail(t)) ELSE t

RECURSIVE RStrip(_)
RStrip(t) ==
    IF t # << >> /\ IsSpace(t[Len(t)].ch) THEN RStrip(SubSeq(t, 1, Len(t) - 1)) ELSE t

Strip(t) == RStrip(LStrip(t))

Concat(s, t) ==
    IF s = << >> THEN t
    ELSE IF t = << >> THEN s
    ELSE IF s[Len(s)].ch = Head(t).ch
         THEN SubSeq(s, 1, Len(s) - 1)
                  \o << Run(Head(t).ch, s[Len(s)].n + Head(t).n) >>
                  \o Tail(t)
         ELSE s \o t

\* text[:k]
RECURSIVE Take(_, _)
Take(t, k) ==
    IF t = << >> \/ k <= 0 THEN << >>
    ELSE IF Head(t).n >= k THEN << Run(Head(t).ch, k) >>
    ELSE << Head(t) >> \o Take(Tail(t), k - Head(t).n)

Chars == {"a", "b", " "}
Counts == {1, MaxTextLen - 1, MaxTextLen}
Runs == {Run(c, k) : c \in Chars, k \in Counts}

Canonical(t) == \A i \in 1 .. Len(t) - 1 : t[i].ch # t[i + 1].ch

\* every string of at most MaxRuns runs
AllTexts ==
    UNION {{t \in [1 .. m -> Runs] : Canonical(t)} : m \in 0 .. MaxRuns}

---------------------------------------------------------------------------
(* config.py *)

PromptLanguages == {"Portuguese", "English", "PT_to_EN"}

\* every template is a non-blank instruction block that ends in a newline
AI_PROMPTS(language) ==
    CASE language = "Portuguese" -> << Run("P", 1), Run(" ", 1) >>
      [] language = "English" -> << Run("E", 1), Run(" ", 1) >>
      [] language = "PT_to_EN" -> << Run("T", 1), Run(" ", 1) >>

---------------------------------------------------------------------------
(* domain/models.py *)

RequestLanguages == {"Portuguese", "English"}

NoRequest ==
    [raised |-> FALSE, error |-> "", original_text |-> EmptyText, language |-> "",
     auto_paste |-> FALSE, show_notification |-> FALSE]

\* CorrectionRequest(...): the constructor runs __post_init__, which raises ValueError
\* for a language outside ["Portuguese", "English"]
CorrectionRequest(text, language, auto_paste, show_notification) ==
    IF language \notin RequestLanguages
    THEN [NoRequest EXCEPT !.raised = TRUE,
                           !.error = "language must be 'Portuguese' or 'English'"]
    ELSE [raised |-> FALSE, error |-> "", original_text |-> text,
          language |-> language, auto_paste |-> auto_paste,
          show_notification |-> show_notification]

NoneMsg == "None"

CorrectionResult(original, corrected, success, error_message) ==
    [original_text |-> original, corrected_text |-> corrected, success |-> success,
     error_message |-> error_message]

NoResult == CorrectionResult(EmptyText, EmptyText, FALSE, NoneMsg)

\* has_changes comparing the texts as they are, without trimming
has_changes_untrimmed(result) == result.original_text # result.corrected_text

has_changes(result) == Strip(result.original_text) # Strip(result.corrected_text)

---------------------------------------------------------------------------
(* domain/services.py *)

_build_correction_prompt(text, language) ==
    Concat(IF language \in PromptLanguages THEN AI_PROMPTS(language)
           ELSE AI_PROMPTS("Portuguese"),
           text)

\* generate_response(prompt): the abstract capability returns a text or raises
GenReturn(t) == [raises |-> FALSE, text |-> t, msg |-> ""]
GenRaise(m) == [raises |-> TRUE, text |-> EmptyText, msg |-> m]
NoGen == [raises |-> FALSE, text |-> EmptyText, msg |-> "not invoked"]

ExcMessages == {"", "quota exceeded"}

GenTexts == {<< Run(" ", 1) >>, << Run(" ", 1), Run("b", 1), Run(" ", 1) >>}

\* what a capability may answer to this prompt: the prompt itself (an echo), the
\* request text inside it, some other text, or a fault
GenOutcomes(prompt, text) ==
    {GenReturn(t) : t \in {prompt, text} \cup GenTexts}
        \cup {GenRaise(m) : m \in ExcMessages}

\* correct_text without its try/except: a fault of the capability leaves it
correct_text_propagates(request, gen) ==
    IF Strip(request.original_text) = EmptyText
    THEN [result |-> CorrectionResult(request.original_text, EmptyText, FALSE,
                                      "Empty text provided"),
          invoked |-> FALSE, raised |-> FALSE]
    ELSE IF gen.raises
    THEN [result |-> NoResult, invoked |-> TRUE, raised |-> TRUE]
    ELSE IF Strip(gen.text) = EmptyText
    THEN [result |-> CorrectionResult(request.original_text, EmptyText, FALSE,
                                      "AI returned empty response"),
          invoked |-> TRUE, raised |-> FALSE]
    ELSE [result |-> CorrectionResult(request.original_text, Strip(gen.text), TRUE,
                                      NoneMsg),
          invoked |-> TRUE, raised |-> FALSE]

\* correct_text checking and storing the response as returned, without trimming
correct_text_untrimmed(request, gen) ==
    IF Strip(request.original_text) = EmptyText
    THEN [result |-> CorrectionResult(request.original_text, EmptyText, FALSE,
                                      "Empty text provided"),
          invoked |-> FALSE, raised |-> FALSE]
    ELSE IF gen.raises
    THEN [result |-> CorrectionResult(request.original_text, EmptyText, FALSE,
                                      "Text correction failed: " \o gen.msg),
          invoked |-> TRUE, raised |-> FALSE]
    ELSE IF gen.text = EmptyText
    THEN [result |-> CorrectionResult(request.original_text, EmptyText, FALSE,
                                      "AI returned empty response"),
          invoked |-> TRUE, raised |-> FALSE]
    ELSE [result |-> CorrectionResult(request.original_text, gen.text, TRUE, NoneMsg),
          invoked |-> TRUE, raised |-> FALSE]

\* correct_text without its first test: a blank text goes to the capability
correct_text_unguarded(request, gen) ==
    IF gen.raises
    THEN [result |-> CorrectionResult(request.original_text, EmptyText, FALSE,
                                      "Text correction failed: " \o gen.msg),
          invoked |-> TRUE, raised |-> FALSE]
    ELSE IF Strip(gen.text) = EmptyText
    THEN [result |-> CorrectionResult(request.original_text, EmptyText, FALSE,
                                      "AI returned empty response"),
          invoked |-> TRUE, raised |-> FALSE]
    ELSE [result |-> CorrectionResult(request.original_text, Strip(gen.text), TRUE,
                                      NoneMsg),
          invoked |-> TRUE, raised |-> FALSE]

\* correct_text(request) when generate_response answers gen (if it is called at
\* all): the result, whether the capability was invoked, and whether a fault left
\* correct_text (its try/except lets none out)
correct_text(request, gen) ==
    IF Strip(request.original_text) = EmptyText
    THEN [result |-> CorrectionResult(request.original_text, EmptyText, FALSE,
                                      "Empty text provided"),
          invoked |-> FALSE, raised |-> FALSE]
    ELSE IF gen.raises
    THEN [result |-> CorrectionResult(request.original_text, EmptyText, FALSE,
                                      "Text correction failed: " \o gen.msg),
          invoked |-> TRUE, raised |-> FALSE]
    ELSE IF Strip(gen.text) = EmptyText
    THEN [result |-> CorrectionResult(request.original_text, EmptyText, FALSE,
                                      "AI returned empty response"),
          invoked |-> TRUE, raised |-> FALSE]
    ELSE [result |-> CorrectionResult(request.original_text, Strip(gen.text), TRUE,
                                      NoneMsg),
          invoked |-> TRUE, raised |-> FALSE]

validate_request(request) ==
    IF request.original_text = EmptyText
    THEN [ok |-> FALSE, reason |-> "Text cannot be empty"]
    ELSE IF TextLen(Strip(request.original_text)) = 0
    THEN [ok |-> FALSE, reason |-> "Text cannot be only whitespace"]
    ELSE IF TextLen(request.original_text) > MaxTextLen
    THEN [ok |-> FALSE, reason |-> "Text is too long (max 10,000 characters)"]
    ELSE IF request.language \notin PromptLanguages
    THEN [ok |-> FALSE, reason |-> "Unsupported language: " \o request.language]
    ELSE [ok |-> TRUE, reason |-> ""]

---------------------------------------------------------------------------
(* infrastructure/services.py: ClipboardService *)

Backends == << "pyclip", "xclip", "xsel", "pyperclip" >>

\* "test"
TestText == << Run("t", 1), Run("e", 1), Run("s", 1), Run("t", 1) >>

\* what a candidate's probe can meet: a library that is missing, whose copy raises,
\* whose paste raises, or whose paste gives back something other than what was
\* copied; a tool whose version check fails (missing, non-zero exit, timeout) or
\* raises some other error
ProbeOutcomes(name) ==
    IF name \in {"pyclip", "pyperclip"}
    THEN {"ok", "import_error", "copy_raises", "paste_raises", "paste_differs"}
    ELSE {"ok", "check_fails", "raises"}

\* the init function's return value; "raises" leaves it through the selector's
\* except. What paste() gave is bound to "result" and not looked at
ProbePasses(outcome) == outcome \in {"ok", "paste_differs"}

\* the probe has written "test" through the candidate and has read "test" back:
\* the tools are only asked for their version
SentinelReadBack(name, outcome) ==
    name \in {"pyclip", "pyperclip"} /\ outcome = "ok"

\* the clipboard after one probe: the library probes copy "test" into it
ProbeClipboard(name, outcome, clip) ==
    IF name \in {"pyclip", "pyperclip"}
           /\ outcome \in {"ok", "paste_raises", "paste_differs"}
    THEN TestText
    ELSE clip

\* the handles after one probe: _init_pyclip binds self._pyclip right after the
\* import, _init_pyperclip binds self._pyperclip only after its test passed
ProbeHandles(name, outcome, held) ==
    IF name = "pyclip" /\ outcome # "import_error" THEN held \cup {"_pyclip"}
    ELSE IF name = "pyperclip" /\ ProbePasses(outcome) THEN held \cup {"_pyperclip"}
    ELSE held

\* the loop without its "return": every candidate is probed, and line 111 runs
RECURSIVE SelectFrom_noreturn(_, _, _)
SelectFrom_noreturn(i, outcomes, st) ==
    IF i > Len(Backends)
    THEN [st EXCEPT !.backend = "none"]
    ELSE LET name == Backends[i]
             after == [backend |-> IF ProbePasses(outcomes[i]) THEN name
                                     ELSE st.backend,
                       probed |-> Append(st.probed,
                                         [name |-> name, outcome |-> outcomes[i]]),
                       clipboard |-> st.clipboard,
                       handles |-> st.handles]
         IN  SelectFrom_noreturn(i + 1, outcomes, after)

\* the loop of _initialize_clipboard_backend from candidate i on
RECURSIVE SelectFrom(_, _, _)
SelectFrom(i, outcomes, st) ==
    IF i > Len(Backends)
    THEN [st EXCEPT !.backend = "none"]
    ELSE LET name == Backends[i]
             after == [backend |-> st.backend,
                       probed |-> Append(st.probed,
                                         [name |-> name, outcome |-> outcomes[i]]),
                       clipboard |-> ProbeClipboard(name, outcomes[i], st.clipboard),
                       handles |-> ProbeHandles(name, outcomes[i], st.handles)]
         IN  IF ProbePasses(outcomes[i])
             THEN [after EXCEPT !.backend = name]
             ELSE SelectFrom(i + 1, outcomes, after)

_initialize_clipboard_backend(outcomes, clip) ==
    SelectFrom(1, outcomes,
               [backend |-> "unset", probed |-> << >>, clipboard |-> clip,
                handles |-> {}])

\* what the selected mechanism can do at one call
RuntimeOutcomes(backend) ==
    IF backend \in {"pyclip", "pyperclip"} THEN {"ok", "exception"}
    ELSE IF backend \in {"xclip", "xsel"} THEN {"ok", "nonzero", "timeout", "exception"}
    ELSE {"ok"}

\* _get_text_pyclip, _get_text_xclip, _get_text_xsel, _get_text_pyperclip when the
\* mechanism answers with outcome r: the library getters let an exception through,
\* the tool getters turn a non-zero exit and a timeout into "" and let any other
\* exception through
_get_text_backend(backend, r, clip) ==
    IF r = "ok" THEN [raised |-> FALSE, text |-> clip]
    ELSE IF backend \in {"xclip", "xsel"} /\ r \in {"nonzero", "timeout"}
    THEN [raised |-> FALSE, text |-> EmptyText]
    ELSE [raised |-> TRUE, text |-> EmptyText]

\* get_text that trusts the mechanism's output whatever its exit status
get_text_unchecked(backend, r, clip) ==
    IF backend = "none" THEN EmptyText
    ELSE IF _get_text_backend(backend, r, clip).raised THEN EmptyText
    ELSE clip

\* get_text() when the mechanism answers with outcome r
get_text(backend, r, clip) ==
    IF backend \in {"pyclip", "xclip", "xsel", "pyperclip"}
    THEN LET got == _get_text_backend(backend, r, clip)
         IN  IF got.raised THEN EmptyText ELSE got.text
    ELSE EmptyText

\* _set_text_pyclip, _set_text_xclip, _set_text_xsel, _set_text_pyperclip
_set_text_backend(backend, r, text, clip) ==
    IF r = "ok" THEN [raised |-> FALSE, ret |-> TRUE, clipboard |-> text]
    ELSE IF backend \in {"xclip", "xsel"} /\ r \in {"nonzero", "timeout"}
    THEN [raised |-> FALSE, ret |-> FALSE, clipboard |-> clip]
    ELSE [raised |-> TRUE, ret |-> FALSE, clipboard |-> clip]

\* set_text whose last branch is the pyperclip call instead of "no backend"
set_text_fallthrough(backend, r, text, clip) ==
    IF backend \in {"xclip", "xsel"}
    THEN IF r = "ok" THEN [ret |-> TRUE, clipboard |-> text]
         ELSE [ret |-> FALSE, clipboard |-> clip]
    ELSE IF r = "ok" THEN [ret |-> TRUE, clipboard |-> text]
         ELSE [ret |-> FALSE, clipboard |-> clip]

\* set_text(text) when the mechanism answers with outcome r: the return value and
\* the clipboard afterwards
set_text(backend, r, text, clip) ==
    IF backend \in {"pyclip", "xclip", "xsel", "pyperclip"}
    THEN LET put == _set_text_backend(backend, r, text, clip)
         IN  IF put.raised THEN [ret |-> FALSE, clipboard |-> clip]
             ELSE [ret |-> put.ret, clipboard |-> put.clipboard]
    ELSE [ret |-> FALSE, clipboard |-> clip]

\* paste(): pressing Ctrl+V through the keyboard controller succeeds or raises
PasteOutcomes == {"ok", "exception"}

paste(r) == r = "ok"

NoApi == [op |-> "none", r |-> "none", text |-> EmptyText, ok |-> FALSE]

AllProbeOutcomes ==
    {"ok", "import_error", "copy_raises", "paste_raises", "paste_differs",
     "check_fails", "raises"}

\* a mechanism is there and works, or is not installed
InstalledOrNot == {"ok", "import_error", "check_fails"}

\* ClipboardService(): line 89 sets the backend to None, then the selection runs;
\* kinds are the probe outcomes the environment can produce
ClipboardService_init(kinds) ==
    /\ clipboard_backend = "unset"
    /\ \E outcomes \in {o \in [1 .. Len(Backends) -> kinds] :
                           \A i \in 1 .. Len(Backends) : o[i] \in ProbeOutcomes(Backends[i])} :
          LET sel == _initialize_clipboard_backend(outcomes, clipboard)
          IN  /\ clipboard_backend' = sel.backend
              /\ probed' = sel.probed
              /\ clipboard' = sel.clipboard
              /\ handles' = sel.handles
    /\ UNCHANGED <<api_ret, svcVars, appVars, presVars>>

\* a holder of the service calls get_text()
ApiGetText ==
    /\ clipboard_backend # "unset"
    /\ \E r \in RuntimeOutcomes(clipboard_backend) :
          api_ret' = [op |-> "get_text", r |-> r,
                      text |-> get_text(clipboard_backend, r, clipboard),
                      ok |-> TRUE]
    /\ UNCHANGED <<clipboard, clipboard_backend, probed, handles, svcVars, appVars, presVars>>

ApiTexts == {EmptyText, << Run("b", 1) >>, << Run(" ", 1), Run("b", 1) >>}

\* a holder of the service calls set_text(text)
ApiSetText ==
    /\ clipboard_backend # "unset"
    /\ \E text \in ApiTexts, r \in RuntimeOutcomes(clipboard_backend) :
          LET res == set_text(clipboard_backend, r, text, clipboard)
          IN  /\ api_ret' = [op |-> "set_text", r |-> r, text |-> text, ok |-> res.ret]
              /\ clipboard' = res.clipboard
    /\ UNCHANGED <<clipboard_backend, probed, handles, svcVars, appVars, presVars>>

\* a holder of the service calls paste()
ApiPaste ==
    /\ clipboard_backend # "unset"
    /\ \E r \in PasteOutcomes :
          api_ret' = [op |-> "paste", r |-> r, text |-> EmptyText, ok |-> paste(r)]
    /\ UNCHANGED <<clipboard, clipboard_backend, probed, handles, svcVars, appVars, presVars>>

\* the user copies something in another application
UserTexts ==
    {<< Run(" ", 1) >>, << Run(" ", 1), Run("a", 1), Run(" ", 1) >>,
     << Run("a", MaxTextLen), Run(" ", 1) >>}

UserCopy ==
    /\ \E t \in UserTexts : clipboard' = t
    /\ clipboard' # clipboard
    /\ UNCHANGED <<clipboard_backend, probed, handles, api_ret, svcVars, appVars, presVars>>

---------------------------------------------------------------------------
(* presentation/ui_components.py: NotificationService *)

NOTIFICATION_COLORS(kind) ==
    CASE kind = "info" -> "#0078d4"
      [] kind = "success" -> "#107c10"
      [] kind = "warning" -> "#ff8c00"
      [] kind = "error" -> "#d13438"

\* a message is a fixed head followed by a piece of text (empty when there is none)
Message(head, text) == [head |-> head, text |-> text]

\* a queue that hands out the newest item first
_queue_notification_lifo(queue, title, message, color, duration) ==
    << [title |-> title, message |-> message, color |-> color,
        duration |-> duration] >> \o queue

_queue_notification(queue, title, message, color, duration) ==
    Append(queue, [title |-> title, message |-> message, color |-> color,
                   duration |-> duration])

show_info(queue, message) ==
    _queue_notification(queue, "Info", message, NOTIFICATION_COLORS("info"),
                        NOTIFICATION_DURATION)

show_success(queue, message) ==
    _queue_notification(queue, "Success", message, NOTIFICATION_COLORS("success"),
                        NOTIFICATION_DURATION)

show_warning(queue, message) ==
    _queue_notification(queue, "Warning", message, NOTIFICATION_COLORS("warning"),
                        NOTIFICATION_DURATION)

show_error(queue, message) ==
    _queue_notification(queue, "Error", message, NOTIFICATION_COLORS("error"),
                        NOTIFICATION_DURATION)

---------------------------------------------------------------------------
(* application/use_cases.py: TextCorrectionUseCase, and its trigger in main.py *)

Workers == 1 .. MaxWorkers

\* AppSettings.__post_init__ admits only these languages
AllSettings ==
    [auto_paste : BOOLEAN, show_notifications : BOOLEAN,
     prompt_language : RequestLanguages]

NoLoc ==
    [settings |-> [auto_paste |-> FALSE, show_notifications |-> FALSE,
                   prompt_language |-> "Portuguese"],
     original_text |-> EmptyText, request |-> NoRequest, result |-> NoResult,
     set_ret |-> FALSE, paste_ret |-> FALSE, exc |-> "", escaped |-> FALSE]

\* one collaborator call of a run: its name, the fixed part of its argument or
\* result, the text in it, and whether the call raised
Call(op, head, text, raised) ==
    [op |-> op, head |-> head, text |-> text, raised |-> raised]

\* the faults a step may meet: "none"; "call", its collaborator call raises;
\* "notify", the notification it emits raises; with "!" the error notification of
\* the except block raises as well
NoFaults == {"none"}
AnyFault == {"none", "call", "notify", "call!", "notify!"}

_create_text_preview(text) ==
    IF TextLen(text) <= PreviewMax THEN text
    ELSE Concat(Take(text, PreviewMax - 3), << Run(".", 3) >>)

SuccessMessage(result, auto_paste_enabled) ==
    Message(IF has_changes(result)
            THEN IF auto_paste_enabled THEN "Text corrected and pasted!\n\nPreview: "
                 ELSE "Text corrected and copied to clipboard!\n\nPreview: "
            ELSE IF auto_paste_enabled THEN "No changes needed. Text pasted.\n\nPreview: "
                 ELSE "No changes needed. Text copied to clipboard.\n\nPreview: ",
            _create_text_preview(result.corrected_text))

\* run_correction without its try/except: a fault that leaves execute ends the thread
run_correction_uncaught(escaped) == IF escaped THEN "crashed" ELSE "done"

\* run_correction: whatever leaves execute is caught and logged, the thread ends
\* normally ("crashed" would be an exception ending the thread)
run_correction(escaped) == "done"

\* the clipboard test without the trim
ClipboardEmpty_untrimmed(text) == text = EmptyText

\* "if not original_text.strip()"
ClipboardEmpty(text) == Strip(text) = EmptyText

\* the validation gate left out
Rejected_ignored(v) == FALSE

\* "if not is_valid"
Rejected(v) == ~v.ok

\* the failure gate left out
Failed_ignored(result) == FALSE

\* a gate that lets an empty response of the capability through
Failed_unless_empty(result) ==
    ~result.success /\ result.error_message # "AI returned empty response"

\* "if not result.success"
Failed(result) == ~result.success

\* writing back the text that was read
WriteBack_original(l) == l.original_text

\* the argument of set_text in step 5
WriteBack(l) == l.result.corrected_text

\* a run that ends, without its success notification, when paste reports failure
AfterPaste_checked(ok) == IF ok THEN "success" ELSE "done"

\* "await self.clipboard_service.paste()": the value returned is dropped and step 7
\* follows
AfterPaste(ok) == "success"

\* a step of worker w ends with these values
Continue(w, queue, log, l, p) ==
    /\ ui_queue' = queue
    /\ calls' = [calls EXCEPT ![w] = log]
    /\ loc' = [loc EXCEPT ![w] = l]
    /\ pc' = [pc EXCEPT ![w] = p]

\* the notification service's method for a severity
Show(queue, kind, message) ==
    CASE kind = "info" -> show_info(queue, message)
      [] kind = "success" -> show_success(queue, message)
      [] kind = "warning" -> show_warning(queue, message)
      [] kind = "error" -> show_error(queue, message)

\* a step of worker w emits a notification (if enabled) and goes on at p
Notify(w, log, l, kind, message, p) ==
    IF l.settings.show_notifications
    THEN Continue(w, Show(ui_queue, kind, message),
                  Append(log, Call("show_" \o kind, message.head, message.text, FALSE)),
                  l, p)
    ELSE Continue(w, ui_queue, log, l, p)

\* a step of worker w emits a notification (if enabled) and returns from execute
Return(w, log, l, kind, message) ==
    Notify(w, log, l, kind, message, run_correction(FALSE))

\* an except block that logs the fault and notifies nobody
Except_silent(w, log, l, m, again) ==
    Continue(w, ui_queue, log, [l EXCEPT !.exc = m], run_correction(FALSE))

\* the except block of execute, entered with exception message m; with again, its
\* own show_error raises and the fault leaves execute
Except(w, log, l, m, again) ==
    LET le == [l EXCEPT !.exc = m]
        message == Message("Unexpected error: " \o m, EmptyText)
    IN  IF ~l.settings.show_notifications
        THEN Continue(w, ui_queue, log, le, run_correction(FALSE))
        ELSE IF again
        THEN Continue(w, ui_queue,
                      Append(log, Call("show_error", message.head, message.text, TRUE)),
                      [le EXCEPT !.escaped = TRUE], run_correction(TRUE))
        ELSE Return(w, log, le, "error", message)

\* a notification of a step raises (fault f is "notify" or "notify!")
NotifyRaises(w, log, l, kind, message, f, m) ==
    Except(w, Append(log, Call("show_" \o kind, message.head, message.text, TRUE)),
           l, m, f = "notify!")

\* a run is started only when no other run is in flight
Thread_run_correction_dedup ==
    IF \E w \in DOMAIN pc : pc[w] \notin {"idle", "done", "crashed"}
    THEN UNCHANGED <<nthreads, pc, loc>>
    ELSE /\ nthreads + 1 \in DOMAIN pc
         /\ nthreads' = nthreads + 1
         /\ pc' = [pc EXCEPT ![nthreads + 1] = "get_text"]
         /\ loc' = [loc EXCEPT ![nthreads + 1].settings = current_settings]

\* threading.Thread(target=run_correction, daemon=True).start(): a new thread runs
\* execute(self.current_settings)
Thread_run_correction ==
    /\ nthreads + 1 \in DOMAIN pc
    /\ nthreads' = nthreads + 1
    /\ pc' = [pc EXCEPT ![nthreads + 1] = "get_text"]
    /\ loc' = [loc EXCEPT ![nthreads + 1].settings = current_settings]

\* hotkey_callback, whenever the hotkey fires
hotkey_callback ==
    /\ clipboard_backend # "unset"
    /\ Thread_run_correction
    /\ UNCHANGED <<current_settings, ui_queue, calls, clipVars, svcVars, presVars>>

\* Step 1: read the clipboard; empty or blank stops the run with a warning
Step1(w, faults) ==
    /\ pc[w] = "get_text"
    /\ \E f \in faults, m \in ExcMessages, r \in RuntimeOutcomes(clipboard_backend) :
          LET l == loc[w]
              text == get_text(clipboard_backend, r, clipboard)
              log == Append(calls[w], Call("get_text", "", text, FALSE))
              warning == Message("Clipboard is empty. Copy some text first!", EmptyText)
          IN  IF f \in {"call", "call!"}
              THEN Except(w, Append(calls[w], Call("get_text", "", EmptyText, TRUE)),
                          l, m, f = "call!")
              ELSE IF ClipboardEmpty(text)
              THEN IF f \in {"notify", "notify!"} /\ l.settings.show_notifications
                   THEN NotifyRaises(w, log, l, "warning", warning, f, m)
                   ELSE Return(w, log, l, "warning", warning)
              ELSE Continue(w, ui_queue, log, [l EXCEPT !.original_text = text],
                            "show_info")
    /\ UNCHANGED <<current_settings, nthreads, clipVars, svcVars, presVars>>

\* Step 2: the "processing" notification
Step2(w, faults) ==
    /\ pc[w] = "show_info"
    /\ \E f \in faults, m \in ExcMessages :
          LET l == loc[w]
              info == Message("Processing text correction...", EmptyText)
          IN  IF ~l.settings.show_notifications
              THEN Continue(w, ui_queue, calls[w], l, "validate")
              ELSE IF f \in {"notify", "notify!"}
              THEN NotifyRaises(w, calls[w], l, "Info", info, f, m)
              ELSE Continue(w, show_info(ui_queue, info),
                            Append(calls[w], Call("show_Info", info.head, info.text, FALSE)),
                            l, "validate")
    /\ UNCHANGED <<current_settings, nthreads, clipVars, svcVars, presVars>>

\* Step 3: build the request and validate it
Step3(w, faults) ==
    /\ pc[w] = "validate"
    /\ \E f \in faults, m \in ExcMessages :
          LET l == loc[w]
              request == CorrectionRequest(l.original_text, l.settings.prompt_language,
                                           l.settings.auto_paste,
                                           l.settings.show_notifications)
              v == validate_request(request)
              log == Append(calls[w], Call("validate_request", v.reason, EmptyText, FALSE))
              lr == [l EXCEPT !.request = request]
              error == Message("Validation error: " \o v.reason, EmptyText)
          IN  IF request.raised
              THEN Except(w, calls[w], l, request.error, f \in {"call!", "notify!"})
              ELSE IF f \in {"call", "call!"}
              THEN Except(w, Append(calls[w], Call("validate_request", "", EmptyText, TRUE)),
                          lr, m, f = "call!")
              ELSE IF Rejected(v)
              THEN IF f \in {"notify", "notify!"} /\ l.settings.show_notifications
                   THEN NotifyRaises(w, log, lr, "error", error, f, m)
                   ELSE Return(w, log, lr, "error", error)
              ELSE Continue(w, ui_queue, log, lr, "correct")
    /\ UNCHANGED <<current_settings, nthreads, clipVars, svcVars, presVars>>

\* Step 4: the correction; a failed result stops the run with an error
Step4(w, faults) ==
    /\ pc[w] = "correct"
    /\ \E f \in faults, m \in ExcMessages,
          gen \in GenOutcomes(_build_correction_prompt(loc[w].request.original_text,
                                                       loc[w].request.language),
                              loc[w].request.original_text) :
          LET l == loc[w]
              c == correct_text(l.request, gen)
              result == c.result
              log0 == IF c.invoked
                      THEN Append(calls[w],
                                  Call("generate_response", gen.msg, gen.text, gen.raises))
                      ELSE calls[w]
              log == Append(log0, Call("correct_text",
                                       IF result.success THEN "" ELSE result.error_message,
                                       result.corrected_text, FALSE))
              lr == [l EXCEPT !.result = result]
              error == Message("Correction failed: " \o result.error_message, EmptyText)
          IN  IF f \in {"call", "call!"} \/ c.raised
              THEN Except(w, Append(log0, Call("correct_text", "", EmptyText, TRUE)),
                          l, IF c.raised THEN gen.msg ELSE m, f \in {"call!", "notify!"})
              ELSE IF Failed(result)
              THEN IF f \in {"notify", "notify!"} /\ l.settings.show_notifications
                   THEN NotifyRaises(w, log, lr, "error", error, f, m)
                   ELSE Return(w, log, lr, "error", error)
              ELSE Continue(w, ui_queue, log, lr, "set_text")
    /\ UNCHANGED <<current_settings, nthreads, clipVars, svcVars, presVars>>

\* Step 5: write the corrected text; the return value of set_text is not looked at
Step5(w, faults) ==
    /\ pc[w] = "set_text"
    /\ \E f \in faults, m \in ExcMessages, r \in RuntimeOutcomes(clipboard_backend) :
          LET l == loc[w]
              text == WriteBack(l)
              res == set_text(clipboard_backend, r, text, clipboard)
          IN  IF f \in {"call", "call!"}
              THEN /\ Except(w, Append(calls[w], Call("set_text", "", text, TRUE)),
                             l, m, f = "call!")
                   /\ clipboard' = clipboard
              ELSE /\ Continue(w, ui_queue,
                               Append(calls[w], Call("set_text", "", text, FALSE)),
                               [l EXCEPT !.set_ret = res.ret],
                               IF l.settings.auto_paste THEN "paste" ELSE "success")
                   /\ clipboard' = res.clipboard
    /\ UNCHANGED <<current_settings, nthreads, clipboard_backend, probed, handles,
                   api_ret, svcVars, presVars>>

\* Step 6: the stabilization delay, then paste()
Step6(w, faults) ==
    /\ pc[w] = "paste"
    /\ \E f \in faults, m \in ExcMessages, r \in PasteOutcomes :
          LET l == loc[w]
          IN  IF f \in {"call", "call!"}
              THEN Except(w, Append(calls[w], Call("paste", "", EmptyText, TRUE)),
                          l, m, f = "call!")
              ELSE Continue(w, ui_queue,
                            Append(calls[w], Call("paste", "", EmptyText, FALSE)),
                            [l EXCEPT !.paste_ret = paste(r)], AfterPaste(paste(r)))
    /\ UNCHANGED <<current_settings, nthreads, clipVars, svcVars, presVars>>

\* Step 7: the success notification
Step7(w, faults) ==
    /\ pc[w] = "success"
    /\ \E f \in faults, m \in ExcMessages :
          LET l == loc[w]
              message == SuccessMessage(l.result, l.settings.auto_paste)
          IN  IF f \in {"notify", "notify!"} /\ l.settings.show_notifications
              THEN NotifyRaises(w, calls[w], l, "success", message, f, m)
              ELSE Return(w, calls[w], l, "success", message)
    /\ UNCHANGED <<current_settings, nthreads, clipVars, svcVars, presVars>>

---------------------------------------------------------------------------
(* The domain service called on its own: build a request, then validate or correct *)

SvcLanguages == PromptLanguages \cup {"French"}

NoOut ==
    [op |-> "none", raised |-> FALSE, error |-> "", ok |-> FALSE, reason |-> "",
     gen |-> NoGen, result |-> NoResult, invoked |-> FALSE, changed |-> FALSE]

\* CorrectionRequest(text, language) followed by validate_request(request), as in
\* step 3 of execute: the constructor raises, or validate_request returns
ValidateCall(text, language) ==
    LET request == CorrectionRequest(text, language, TRUE, TRUE)
        v == validate_request(request)
    IN  IF request.raised
        THEN [NoOut EXCEPT !.op = "validate", !.raised = TRUE, !.error = request.error]
        ELSE [NoOut EXCEPT !.op = "validate", !.ok = v.ok, !.reason = v.reason]

CallValidate ==
    /\ svc_out.op = "none"
    /\ svc_out' = ValidateCall(svc_in.text, svc_in.language)
    /\ UNCHANGED <<svc_in, clipVars, appVars, presVars>>

\* CorrectionRequest(text, language) followed by correct_text(request) and a read
\* of the result's has_changes
CallCorrect ==
    /\ svc_out.op = "none"
    /\ LET request == CorrectionRequest(svc_in.text, svc_in.language, TRUE, TRUE)
       IN  IF request.raised
           THEN svc_out' = [NoOut EXCEPT !.op = "correct", !.raised = TRUE,
                                         !.error = request.error]
           ELSE \E gen \in GenOutcomes(_build_correction_prompt(request.original_text,
                                                                request.language),
                                        request.original_text) :
                  LET c == correct_text(request, gen)
                  IN  svc_out' = [NoOut EXCEPT !.op = "correct", !.gen = gen,
                                               !.raised = c.raised,
                                               !.error = IF c.raised THEN gen.msg ELSE "",
                                               !.result = c.result,
                                               !.invoked = c.invoked,
                                               !.changed = has_changes(c.result)]
    /\ UNCHANGED <<svc_in, clipVars, appVars, presVars>>

---------------------------------------------------------------------------
(* presentation/ui_components.py: the queue's consumer and the toasts; main.py: the
   threads around it *)

Producers == 1 .. MaxProducers

\* the severities a producer goes through, as a run of execute does
KindOf(n) == << "info", "error", "success", "warning" >>[((n - 1) % 4) + 1]

\* the n-th notification of producer p
ItemOf(p, n) == Message("producer " \o ToString(p), << Run("a", n) >>)

\* a thread calls notification_service.show_info / show_error / show_success /
\* show_warning: queue.Queue.put is atomic
Produce(p) ==
    /\ Len(drained) + Len(ui_queue) < MaxToasts
    /\ LET n == Len(enqueued[p]) + 1
           item == Show(<< >>, KindOf(n), ItemOf(p, n))[1]
       IN  /\ ui_queue' = Show(ui_queue, KindOf(n), ItemOf(p, n))
           /\ enqueued' = [enqueued EXCEPT ![p] = Append(@, item)]
    /\ UNCHANGED <<active_notifications, ui_pc, quit, drained, touched>>
    /\ UNCHANGED <<current_settings, nthreads, pc, loc, calls, clipVars, svcVars,
                   startVars, keyVars, tickVars, extVars>>

\* what creating a toast window can meet: it works; Tk raises before the window is
\* in active_notifications; Tk raises after (in _create_notification_content), so
\* that no timer and no click handler is bound to it
RenderOutcomes == {"ok", "error_early", "error_late"}

\* _create_notification_window: the new toast is placed len(active_notifications)
\* slots above the bottom one
_create_notification_window(active, id, item, r) ==
    IF r = "error_early" THEN active
    ELSE Append(active,
                [id |-> id,
                 y_offset |-> Len(active) * (NotificationHeight + StackGap),
                 title |-> item.title,
                 message |-> item.message,
                 duration |-> item.duration,
                 bound |-> r = "ok"])

\* the toasts of the list
ActiveIds(active) == {active[k].id : k \in 1 .. Len(active)}

\* a run that asks for no further run
root_after_never(q) == "stopped"

\* self.root.after(100, self.process_queue), the last statement of process_queue:
\* the timer is set, and never fires once root.quit() has ended the main loop
root_after(q) == IF q THEN "stopped" ELSE "scheduled"

\* process_queue is entered: called once by run(), then by the timer of root.after
process_queue ==
    /\ ui_pc \in {"off", "scheduled"}
    /\ ~quit
    /\ ui_pc' = "draining"
    /\ tick_start' = Len(ui_queue)
    /\ tick_drained' = 0
    /\ UNCHANGED <<active_notifications, quit, enqueued, drained, touched>>
    /\ UNCHANGED <<appVars, clipVars, svcVars, startVars, keyVars, extVars>>

\* one turn of the "while True" loop: get_nowait() hands over the oldest item, which
\* is rendered, or raises queue.Empty, which ends the loop and schedules the next
\* call in 100 ms (never run once root.quit() has ended the main loop)
get_nowait ==
    /\ ui_pc = "draining"
    /\ IF ui_queue # << >>
       THEN /\ ui_queue' = Tail(ui_queue)
            /\ drained' = Append(drained, Head(ui_queue))
            /\ \E r \in RenderOutcomes :
                  /\ active_notifications' =
                         _create_notification_window(active_notifications,
                                                     Len(drained) + 1, Head(ui_queue), r)
                  /\ touched' = IF r = "error_early" THEN touched
                                ELSE touched \cup {[thread |-> "ui",
                                                    op |-> "_create_notification_window"]}
            /\ windows' = windows \cup (ActiveIds(active_notifications')
                                            \ ActiveIds(active_notifications))
            /\ tick_drained' = tick_drained + 1
            /\ UNCHANGED tick_start
            /\ UNCHANGED ui_pc
       ELSE /\ ui_pc' = root_after(quit)
            /\ tick_start' = 0
            /\ tick_drained' = 0
            /\ UNCHANGED <<ui_queue, drained, active_notifications, touched, windows>>
    /\ UNCHANGED <<quit, enqueued, shutdown_pc>>
    /\ UNCHANGED <<current_settings, nthreads, pc, loc, calls, clipVars, svcVars,
                   startVars, keyVars, storeVars, settings_hotkey>>

\* the list without its i-th element
Remove(seq, i) == SubSeq(seq, 1, i - 1) \o SubSeq(seq, i + 1, Len(seq))

\* destroy_notification, run by the main loop when the toast's timer expires or the
\* toast is clicked: the window leaves the list and is destroyed
destroy_notification(i) ==
    /\ ui_pc = "scheduled"
    /\ i \in 1 .. Len(active_notifications)
    /\ active_notifications[i].bound
    /\ active_notifications' = Remove(active_notifications, i)
    /\ windows' = windows \ {active_notifications[i].id}
    /\ touched' = touched \cup {[thread |-> "ui", op |-> "destroy_notification"]}
    /\ UNCHANGED <<ui_pc, quit, enqueued, drained, shutdown_pc>>
    /\ UNCHANGED <<appVars, clipVars, svcVars, startVars, keyVars, tickVars, storeVars,
                   settings_hotkey>>

\* clear_all_notifications up to its last statement, on the thread that calls it:
\* every window of a copy of the list is destroyed
clear_all_destroy(thread) ==
    /\ windows' = windows \ ActiveIds(active_notifications)
    /\ touched' = touched \cup {[thread |-> thread, op |-> "clear_all_notifications"]}

\* "self.active_notifications.clear()"
clear_all_clear == active_notifications' = << >>

\* clear_all_notifications, on the thread that calls it, with nothing in between
clear_all_notifications(thread) ==
    /\ clear_all_destroy(thread)
    /\ clear_all_clear

\* _shutdown up to the toasts: a listener that says it is running is told to stop
\* and the tray icon is stopped
_shutdown_services ==
    /\ stop_event' = (stop_event \/ listener_pc = "running")
    /\ tray_is_running' = FALSE

\* the end of _shutdown: root.quit() ends the main loop
_shutdown_quit ==
    /\ quit' = TRUE
    /\ ui_pc' = IF ui_pc = "draining" THEN ui_pc ELSE "stopped"

\* _shutdown on the UI thread: a listener that says it is running is told to stop,
\* the tray icon is stopped, the toasts are cleared and root.quit() ends the main loop
_shutdown(thread) ==
    /\ _shutdown_services
    /\ clear_all_notifications(thread)
    /\ _shutdown_quit
    /\ shutdown_pc' = "done"

\* the Exit item of the tray menu: pystray runs _request_shutdown on the thread of
\* the detached icon, beside the UI thread; here _shutdown up to the destruction of
\* the toast windows of the copy
_request_shutdown ==
    /\ ui_pc \in {"draining", "scheduled"}
    /\ ~quit
    /\ shutdown_pc = "idle"
    /\ _shutdown_services
    /\ clear_all_destroy("tray")
    /\ shutdown_pc' = "clearing"
    /\ UNCHANGED <<active_notifications, ui_pc, quit, enqueued, drained>>
    /\ UNCHANGED <<hotkey, app_pc, dialogs, listener_pc, hk_keys>>
    /\ UNCHANGED <<appVars, clipVars, svcVars, keyVars, tickVars, storeVars,
                   settings_hotkey>>

\* the tray thread goes on in _shutdown: the list is cleared and root.quit() called
_shutdown_clear ==
    /\ shutdown_pc = "clearing"
    /\ clear_all_clear
    /\ _shutdown_quit
    /\ shutdown_pc' = "done"
    /\ UNCHANGED <<enqueued, drained, touched, windows>>
    /\ UNCHANGED <<appVars, clipVars, svcVars, startVars, keyVars, tickVars, storeVars,
                   settings_hotkey>>

---------------------------------------------------------------------------
(* presentation/system_integration.py: HotkeyListener; hotkey strings are    *)
(* sequences of characters                                                   *)

\* str.lower on the characters of the input alphabet
LowerChar(c) == IF c = "A" THEN "a" ELSE IF c = "S" THEN "s" ELSE c

LowerStr(s) == [i \in 1 .. Len(s) |-> LowerChar(s[i])]

RECURSIVE StrLStrip(_)
StrLStrip(s) == IF s # << >> /\ IsSpace(Head(s)) THEN StrLStrip(Tail(s)) ELSE s

RECURSIVE StrRStrip(_)
StrRStrip(s) ==
    IF s # << >> /\ IsSpace(s[Len(s)]) THEN StrRStrip(SubSeq(s, 1, Len(s) - 1)) ELSE s

\* str.strip
StrStrip(s) == StrRStrip(StrLStrip(s))

\* str.split(sep): the pieces between the separators, empty pieces included
RECURSIVE Split(_, _)
Split(s, sep) ==
    IF \E i \in 1 .. Len(s) : s[i] = sep
    THEN LET i == CHOOSE i \in 1 .. Len(s) :
                      s[i] = sep /\ \A j \in 1 .. i - 1 : s[j] # sep
         IN  << SubSeq(s, 1, i - 1) >> \o Split(SubSeq(s, i + 1, Len(s)), sep)
    ELSE << s >>

\* sep.join(parts), parts not empty
RECURSIVE Join(_, _)
Join(parts, sep) ==
    IF Len(parts) = 1
    THEN parts[1]
    ELSE parts[1] \o << sep >> \o Join(Tail(parts), sep)

\* the tokens a configured hotkey is put together from
Tokens ==
    { << "a", "l", "t" >>, << "A", "l", "t" >>, << "s" >>, << "S" >>, << " ", "s" >>,
      << >>, << "<", "a", "l", "t", ">" >>, << "x", "y" >> }

RECURSIVE TokenLists(_)
TokenLists(n) ==
    IF n = 0
    THEN { << >> }
    ELSE LET shorter == TokenLists(n - 1)
         IN  shorter \cup { Append(l, t) : l \in { x \in shorter : Len(x) = n - 1 },
                                           t \in Tokens }

\* AppSettings.__post_init__ admits a hotkey that is not blank
HotkeyStrings ==
    { h \in { Join(l, "+") : l \in TokenLists(MaxTokens) \ { << >> } } :
        StrStrip(h) # << >> }

\* _normalize_hotkey: lower case, split at "+", each key stripped, and a key of more
\* than one character wrapped in angle brackets
_normalize_hotkey(h) ==
    LET keys == Split(StrStrip(LowerStr(h)), "+")
        normalized_keys ==
            [i \in 1 .. Len(keys) |->
                LET key == StrStrip(keys[i])
                IN  IF Len(key) > 1 THEN << "<" >> \o key \o << ">" >> ELSE key]
    IN  Join(normalized_keys, "+")

\* the names of pynput's Key members that can be written with the alphabet
KeyNames == { << "a", "l", "t" >> }

\* HotKey.parse, splitting: a '+' that is not the first character of a part ends
\* the part; nothing after the last '+' is an error
RECURSIVE HotKeyParts(_, _, _)
HotKeyParts(keys, start, i) ==
    IF i > Len(keys)
    THEN IF start = Len(keys) + 1
         THEN [raised |-> TRUE, parts |-> << >>]
         ELSE [raised |-> FALSE, parts |-> << SubSeq(keys, start, Len(keys)) >>]
    ELSE IF keys[i] = "+" /\ i # start
    THEN LET rest == HotKeyParts(keys, i + 1, i + 1)
         IN  [raised |-> rest.raised,
              parts |-> << SubSeq(keys, start, i - 1) >> \o rest.parts]
    ELSE HotKeyParts(keys, start, i + 1)

\* HotKey.parse on one part: a character, or the name of a key in angle brackets
\* (a virtual key code in brackets needs digits, which the alphabet does not have)
HotKeyPart(s) ==
    IF Len(s) = 1
    THEN [raised |-> FALSE, key |-> LowerStr(s)]
    ELSE IF Len(s) > 2 /\ Head(s) = "<" /\ s[Len(s)] = ">"
              /\ LowerStr(SubSeq(s, 2, Len(s) - 1)) \in KeyNames
    THEN [raised |-> FALSE, key |-> LowerStr(SubSeq(s, 2, Len(s) - 1))]
    ELSE [raised |-> TRUE, key |-> << >>]

\* pynput's HotKey.parse: the keys of the chord, or ValueError
HotKey_parse(keys) ==
    LET p == HotKeyParts(keys, 1, 1)
        parsed == [i \in 1 .. Len(p.parts) |-> HotKeyPart(p.parts[i])]
        found == { parsed[i].key : i \in 1 .. Len(parsed) }
    IN  IF p.raised \/ (\E i \in 1 .. Len(parsed) : parsed[i].raised)
           \/ Cardinality(found) # Len(parsed)
        THEN [raised |-> TRUE, keys |-> {}]
        ELSE [raised |-> FALSE, keys |-> found]

\* test_hotkey_format: True when the normalized hotkey parses
test_hotkey_format(h) == ~HotKey_parse(_normalize_hotkey(h)).raised

\* pynput's HotKey.press: a chord key not yet held is added, and the chord
\* activates when that makes the held keys the whole chord
HotKey_press(keys, state, key) ==
    IF key \in keys /\ key \notin state
    THEN [state |-> state \cup {key}, activate |-> state \cup {key} = keys]
    ELSE [state |-> state, activate |-> FALSE]

\* pynput's HotKey.release
HotKey_release(state, key) == state \ {key}

\* Listener(on_press=for_canonical(hotkey_obj.press), ...)
on_press(key) == HotKey_press(hk_keys, hk_state, key)

\* a listener that is given no on_release
on_release_unwired(key) == hk_state

\* Listener(..., on_release=for_canonical(hotkey_obj.release))
on_release(key) == HotKey_release(hk_state, key)

\* the callback called where the hotkey is detected
_on_hotkey_pressed_inline(thread) == thread

\* _on_hotkey_pressed, called on the given thread: the thread that will run
\* _safe_callback, a new daemon thread
_on_hotkey_pressed(thread) == "_safe_callback"

\* the listener thread is in its event loop, not inside a callback
ListenerFree ==
    \A i \in 1 .. Len(callback_threads) : callback_threads[i] # "listener"

AltKey == << "a", "l", "t" >>
SKey == << "s" >>
XKey == << "x" >>

\* the keys of the keyboard: the two of the default chord and one outside it
Keys == {AltKey, SKey, XKey}

\* "alt+s", the default hotkey
DefaultHotkey == << "a", "l", "t", "+", "s" >>

\* a key-down event reaches the listener (a key that is already held repeats): the
\* chord tracker is told, and on activation _on_hotkey_pressed starts the callback
KeyDown(k) ==
    /\ listener_pc = "running"
    /\ ListenerFree
    /\ LET p == on_press(k)
           completes == /\ hk_keys \subseteq (keys_down \cup {k})
                        /\ ~(hk_keys \subseteq keys_down)
       IN  /\ completes => completions < MaxTriggers
           /\ p.activate => dispatched < MaxTriggers
           /\ keys_down' = keys_down \cup {k}
           /\ hk_state' = p.state
           /\ completions' = IF completes THEN completions + 1 ELSE completions
           /\ IF p.activate
              THEN /\ dispatched' = dispatched + 1
                   /\ callback_threads' =
                          Append(callback_threads, _on_hotkey_pressed("listener"))
                   /\ ran_on' = ran_on \cup {[op |-> "_on_hotkey_pressed",
                                              thread |-> "listener"]}
              ELSE UNCHANGED <<dispatched, callback_threads, ran_on>>
    /\ UNCHANGED <<appVars, clipVars, svcVars, uiVars, startVars, tickVars, extVars>>

\* a key-up event reaches the listener
KeyUp(k) ==
    /\ listener_pc = "running"
    /\ ListenerFree
    /\ k \in keys_down
    /\ keys_down' = keys_down \ {k}
    /\ hk_state' = on_release(k)
    /\ UNCHANGED <<callback_threads, dispatched, completions, ran_on>>
    /\ UNCHANGED <<appVars, clipVars, svcVars, uiVars, startVars, tickVars, extVars>>

\* _safe_callback, on the thread it was started on: the callback, which is
\* hotkey_callback, starts the thread of run_correction
_safe_callback ==
    /\ callback_threads # << >>
    /\ callback_threads' = Tail(callback_threads)
    /\ ran_on' = ran_on \cup {[op |-> "hotkey_callback",
                               thread |-> Head(callback_threads)]}
    /\ Thread_run_correction
    /\ UNCHANGED <<current_settings, ui_queue, calls, clipVars, svcVars, tickVars,
                   extVars>>
    /\ UNCHANGED <<hk_state, keys_down, dispatched, completions, uiVars, startVars>>

\* what starting the OS hook can meet
HookOutcomes == {"ok", "raises"}

\* HotkeyListener.start up to its poll loop, on the listener thread: the hotkey is
\* normalized and parsed and the OS hook installed; an exception is logged and
\* raised again, which ends the thread
HotkeyListener_start ==
    /\ listener_pc = "starting"
    /\ \E r \in HookOutcomes :
          LET parsed == HotKey_parse(_normalize_hotkey(hotkey))
          IN  IF parsed.raised \/ r = "raises"
              THEN /\ listener_pc' = "failed"
                   /\ UNCHANGED hk_keys
              ELSE /\ listener_pc' = "running"
                   /\ hk_keys' = parsed.keys
    /\ UNCHANGED <<hotkey, app_pc, dialogs, tray_is_running, stop_event>>
    /\ UNCHANGED <<appVars, clipVars, svcVars, uiVars, keyVars, tickVars, extVars>>

\* a loop that never looks at the stop event
while_not_stop_event_forever(is_set) == "running"

\* "while not self.stop_event.is_set(): time.sleep(0.1)", one turn, and what follows
\* the loop: where the listener thread is after it
while_not_stop_event(is_set) == IF is_set THEN "stopped" ELSE "running"

\* one turn of the poll loop of start: it sleeps again, or it sees the stop event,
\* stops the hook, clears _is_running and start returns
poll_stop_event ==
    /\ listener_pc = "running"
    /\ listener_pc' = while_not_stop_event(stop_event)
    /\ UNCHANGED <<hotkey, app_pc, dialogs, tray_is_running, hk_keys, stop_event>>
    /\ UNCHANGED <<appVars, clipVars, svcVars, uiVars, keyVars, tickVars, extVars>>

---------------------------------------------------------------------------
(* main.py: TextCorrectionApp.run *)

\* run up to the health checks, on the main thread, which is the UI thread: a
\* hotkey that does not pass test_hotkey_format shows the "Startup Error" dialog,
\* run returns and its finally block shuts down
run ==
    /\ app_pc = "init"
    /\ IF test_hotkey_format(hotkey)
       THEN /\ app_pc' = "checked"
            /\ UNCHANGED <<dialogs, tray_is_running, stop_event>>
            /\ UNCHANGED <<active_notifications, touched, quit, ui_pc>>
            /\ UNCHANGED <<windows, shutdown_pc>>
       ELSE /\ app_pc' = "aborted"
            /\ dialogs' = Append(dialogs, "Startup Error")
            /\ _shutdown("ui")
    /\ UNCHANGED <<hotkey, listener_pc, hk_keys, enqueued, drained>>
    /\ UNCHANGED <<appVars, clipVars, svcVars, keyVars, tickVars, storeVars,
                   settings_hotkey>>

\* _start_background_services: the listener thread is started on
\* HotkeyListener.start and the tray icon is set up
_start_background_services ==
    /\ app_pc = "checked"
    /\ app_pc' = "services"
    /\ listener_pc' = "starting"
    /\ tray_is_running' = TRUE
    /\ UNCHANGED <<hotkey, dialogs, hk_keys, stop_event>>
    /\ UNCHANGED <<appVars, clipVars, svcVars, uiVars, keyVars, tickVars, extVars>>

\* _show_startup_notification; after it run calls process_queue and enters the
\* main loop
_show_startup_notification ==
    /\ app_pc = "services"
    /\ app_pc' = "mainloop"
    /\ ui_queue' =
           _queue_notification(ui_queue, "Success",
                               Message("Application started successfully!", EmptyText),
                               NOTIFICATION_COLORS("success"), StartupDuration)
    /\ UNCHANGED <<hotkey, dialogs, tray_is_running, listener_pc, hk_keys, stop_event>>
    /\ UNCHANGED <<current_settings, nthreads, pc, loc, calls>>
    /\ UNCHANGED <<clipVars, svcVars, uiVars, keyVars, tickVars, extVars>>

---------------------------------------------------------------------------
(* infrastructure/repositories.py: SettingsRepository over settings.json and *)
(* its siblings .tmp and .corrupted; config.py: DEFAULT_SETTINGS;            *)
(* domain/models.py: AppSettings                                             *)

\* how many save(load()) rounds are followed
MaxRounds == 2

\* config.py: the defaults the repository merges under what it reads
DEFAULT_SETTINGS ==
    [hotkey |-> DefaultHotkey, auto_paste |-> TRUE, show_notifications |-> TRUE,
     prompt_language |-> "PT_to_EN"]

\* dict.get(key, default)
Get(d, key, default) == IF key \in DOMAIN d THEN d[key] ELSE default

\* {**a, **b}
Merge(a, b) ==
    [k \in DOMAIN a \cup DOMAIN b |-> IF k \in DOMAIN b THEN b[k] ELSE a[k]]

\* no AppSettings object
NoSettings ==
    [hotkey |-> << >>, auto_paste |-> FALSE, show_notifications |-> FALSE,
     prompt_language |-> ""]

\* AppSettings.__post_init__: the objects the constructor lets through
AppSettings_post_init(s) ==
    /\ StrStrip(s.hotkey) # << >>
    /\ s.prompt_language \in {"Portuguese", "English"}

\* AppSettings.from_dict: the object, or the ValueError of __post_init__
AppSettings_from_dict(data) ==
    LET s == [hotkey |-> Get(data, "hotkey", DefaultHotkey),
              auto_paste |-> Get(data, "auto_paste", TRUE),
              show_notifications |-> Get(data, "show_notifications", TRUE),
              prompt_language |-> Get(data, "prompt_language", "Portuguese")]
    IN  IF AppSettings_post_init(s)
        THEN [raised |-> FALSE, settings |-> s]
        ELSE [raised |-> TRUE, settings |-> NoSettings]

\* a dictionary that holds the hotkey as the listener rewrites it
to_dict_normalized(s) ==
    [hotkey |-> _normalize_hotkey(s.hotkey), auto_paste |-> s.auto_paste,
     show_notifications |-> s.show_notifications,
     prompt_language |-> s.prompt_language]

\* AppSettings.to_dict
to_dict(s) ==
    [hotkey |-> s.hotkey, auto_paste |-> s.auto_paste,
     show_notifications |-> s.show_notifications,
     prompt_language |-> s.prompt_language]

\* a JSON object with no member
NoData == [k \in {} |-> ""]

\* a path at which there is no file
NoFile == [kind |-> "missing", data |-> NoData, layout |-> "none"]

\* a file whose text is not JSON, as a hand edit or a crash leaves it
Malformed == [kind |-> "malformed", data |-> NoData, layout |-> "other"]

\* a file that is JSON, but not an object
NonObject == [kind |-> "array", data |-> NoData, layout |-> "other"]

\* a file opened for writing whose text was not written to the end
Truncated == [kind |-> "truncated", data |-> NoData, layout |-> "other"]

\* json.dump(d, f, indent=4, ensure_ascii=False): the text is determined by the
\* members of d, in their order, and the layout
json_dump(d) == [kind |-> "json", data |-> d, layout |-> "indent4"]

\* json.load(f): the object, or the error the text gives
json_load(content) ==
    CASE content.kind = "json"  -> [error |-> "none", data |-> content.data]
      [] content.kind = "array" -> [error |-> "TypeError", data |-> NoData]
      [] OTHER                  -> [error |-> "JSONDecodeError", data |-> NoData]

\* the values a settings file may give to a member, known or not
Blank == << " " >>
MemberValues ==
    [hotkey : {DefaultHotkey, << "f", "9" >>, Blank},
     auto_paste : BOOLEAN,
     show_notifications : BOOLEAN,
     prompt_language : {"Portuguese", "English", "French"},
     theme : {"dark"}]

Members == {"hotkey", "auto_paste", "show_notifications", "prompt_language", "theme"}

\* the JSON objects a settings file may hold: any members present, any absent
JsonObjects == {[k \in S |-> d[k]] : d \in MemberValues, S \in SUBSET Members}

\* the states the settings file can be found in
FileContents ==
    {NoFile, Malformed, NonObject}
        \cup {[kind |-> "json", data |-> d, layout |-> l] :
                  d \in JsonObjects, l \in {"indent4", "other"}}

\* what a call to the file system can meet
IoOutcomes == {"ok", "raises"}

\* _backup_corrupted_file: the file is copied to its .corrupted sibling; a failure
\* is logged and goes no further
_backup_corrupted_file(content, corrupted, copy) ==
    IF content # NoFile /\ copy = "ok" THEN content ELSE corrupted

\* SettingsRepository.load on the file's content: what leaves the call, and the
\* .corrupted sibling after it
SettingsRepository_load(content, corrupted, copy) ==
    LET parsed == json_load(content)
        body == CASE content = NoFile -> AppSettings_from_dict(DEFAULT_SETTINGS)
                  [] parsed.error = "none" ->
                         AppSettings_from_dict(Merge(DEFAULT_SETTINGS, parsed.data))
                  [] OTHER -> [raised |-> TRUE, settings |-> NoSettings]
        \* both except clauses end with AppSettings.from_dict(DEFAULT_SETTINGS),
        \* outside the try
        ret == IF body.raised THEN AppSettings_from_dict(DEFAULT_SETTINGS) ELSE body
    IN  [raised |-> ret.raised,
         settings |-> ret.settings,
         corrupted |-> IF content # NoFile /\ parsed.error = "JSONDecodeError"
                       THEN _backup_corrupted_file(content, corrupted, copy)
                       ELSE corrupted]

\* no call made on the repository yet
NoRet == [op |-> "none", raised |-> FALSE, settings |-> NoSettings, unlink |-> "none"]

\* no save made yet; after a save, what it was given and what the file held when it
\* was called stay on record
NoSave == [at |-> "idle", settings |-> NoSettings, old |-> NoFile, round |-> FALSE]

\* load(), whole: it reads the file and, at most, writes the .corrupted sibling
load ==
    /\ save_pc.at = "idle"
    /\ \E copy \in IoOutcomes :
          LET r == SettingsRepository_load(file, corrupted_file, copy)
          IN  /\ store_ret' = [op |-> "load", raised |-> r.raised,
                               settings |-> r.settings, unlink |-> "none"]
              /\ corrupted_file' = r.corrupted
    /\ UNCHANGED <<file, tmp_file, save_pc, rounds>>
    /\ UNCHANGED <<appVars, clipVars, svcVars, uiVars, startVars, keyVars, tickVars,
                   settings_hotkey, toastVars>>

\* a temporary file that is never unlinked
unlink_never(tmp, unlink) == tmp

\* the except branch of save: the temporary file, if it exists, is unlinked, and a
\* failure to unlink it is passed over
unlink_temp(tmp, unlink) == IF tmp # NoFile /\ unlink = "ok" THEN NoFile ELSE tmp

\* the except branch of save, whole: clean up, then raise Exception(error_msg)
save_except(s, tmp, unlink) ==
    /\ tmp_file' = unlink_temp(tmp, unlink)
    /\ store_ret' = [op |-> "save", raised |-> TRUE, settings |-> s,
                     unlink |-> IF tmp = NoFile THEN "absent" ELSE unlink]
    /\ UNCHANGED <<file, rounds>>

\* the settings a caller passes to save when it passes a changed object
ChangedSettings ==
    {[hotkey |-> DefaultHotkey, auto_paste |-> FALSE, show_notifications |-> TRUE,
      prompt_language |-> "English"],
     [hotkey |-> << "f", "9" >>, auto_paste |-> TRUE, show_notifications |-> FALSE,
      prompt_language |-> "Portuguese"]}

\* save(settings) up to open(temp_path, 'w'): settings is a changed object, or
\* (round) the object the last load returned
save_open(s, round) ==
    /\ save_pc.at = "idle"
    /\ \E o \in IoOutcomes, u \in IoOutcomes :
          IF o = "ok"
          THEN /\ tmp_file' = Truncated
               /\ save_pc' = [at |-> "opened", settings |-> s, old |-> file,
                              round |-> round]
               /\ UNCHANGED <<file, store_ret, rounds>>
          ELSE /\ save_pc' = [at |-> "idle", settings |-> s, old |-> file,
                              round |-> round]
               /\ save_except(s, tmp_file, u)
    /\ UNCHANGED corrupted_file
    /\ UNCHANGED <<appVars, clipVars, svcVars, uiVars, startVars, keyVars, tickVars,
                   settings_hotkey, toastVars>>

\* the caller saves a changed object
save_changed ==
    /\ rounds = << >>
    /\ \E s \in ChangedSettings : save_open(s, FALSE)

\* the caller saves what load has just returned
save_loaded ==
    /\ store_ret.op = "load"
    /\ ~store_ret.raised
    /\ Len(rounds) < MaxRounds
    /\ save_open(store_ret.settings, TRUE)

\* json.dump into the temporary file, and the file closed
save_dump ==
    /\ save_pc.at = "opened"
    /\ \E o \in IoOutcomes, u \in IoOutcomes :
          IF o = "ok"
          THEN /\ tmp_file' = json_dump(to_dict(save_pc.settings))
               /\ save_pc' = [save_pc EXCEPT !.at = "dumped"]
               /\ UNCHANGED <<file, store_ret, rounds>>
          ELSE /\ save_pc' = [save_pc EXCEPT !.at = "idle"]
               /\ save_except(save_pc.settings, Truncated, u)
    /\ UNCHANGED corrupted_file
    /\ UNCHANGED <<appVars, clipVars, svcVars, uiVars, startVars, keyVars, tickVars,
                   settings_hotkey, toastVars>>

\* temp_path.replace(config_path): the rename takes place at once, or not at all
save_replace ==
    /\ save_pc.at = "dumped"
    /\ \E o \in IoOutcomes, u \in IoOutcomes :
          IF o = "ok"
          THEN /\ file' = tmp_file
               /\ tmp_file' = NoFile
               /\ store_ret' = [op |-> "save", raised |-> FALSE,
                                settings |-> save_pc.settings, unlink |-> "none"]
               /\ rounds' = IF save_pc.round THEN Append(rounds, tmp_file) ELSE rounds
               /\ save_pc' = [save_pc EXCEPT !.at = "idle"]
          ELSE /\ save_pc' = [save_pc EXCEPT !.at = "idle"]
               /\ save_except(save_pc.settings, tmp_file, u)
    /\ UNCHANGED corrupted_file
    /\ UNCHANGED <<appVars, clipVars, svcVars, uiVars, startVars, keyVars, tickVars,
                   settings_hotkey, toastVars>>

\* the repository constructed over a directory that holds no file
InitStore ==
    /\ file = NoFile
    /\ tmp_file = NoFile
    /\ corrupted_file = NoFile
    /\ store_ret = NoRet
    /\ save_pc = NoSave
    /\ rounds = << >>

---------------------------------------------------------------------------
(* main.py: the settings window's save, and SettingsUseCase.save_settings *)

\* "alt+x"
OtherHotkey == << "a", "l", "t", "+", "x" >>

\* what the settings window hands over when the user saves
NewSettings ==
    {[hotkey |-> OtherHotkey, auto_paste |-> FALSE, show_notifications |-> FALSE,
      prompt_language |-> "English"],
     [hotkey |-> OtherHotkey, auto_paste |-> TRUE, show_notifications |-> TRUE,
      prompt_language |-> "English"],
     [hotkey |-> DefaultHotkey, auto_paste |-> FALSE, show_notifications |-> FALSE,
      prompt_language |-> "Portuguese"]}

\* a listener that takes up the saved hotkey while it runs
listener_keys_rebound(keys, h) == HotKey_parse(_normalize_hotkey(h)).keys

\* the chord of the running listener after a save of hotkey h: on_settings_saved
\* does not touch the listener ("Note: Hotkey changes require restart")
listener_keys(keys, h) == keys

\* on_settings_saved(new_settings), on the UI thread: current_settings is replaced,
\* then save_settings writes the file and notifies of the outcome
on_settings_saved ==
    /\ app_pc = "services"
    /\ store_ret.op = "none"
    /\ \E new \in NewSettings, o \in IoOutcomes :
          /\ current_settings' = [auto_paste |-> new.auto_paste,
                                  show_notifications |-> new.show_notifications,
                                  prompt_language |-> new.prompt_language]
          /\ settings_hotkey' = new.hotkey
          /\ hk_keys' = IF listener_pc = "running"
                        THEN listener_keys(hk_keys, new.hotkey)
                        ELSE hk_keys
          /\ save_pc' = [at |-> "idle", settings |-> new, old |-> file, round |-> FALSE]
          /\ store_ret' = [op |-> "save", raised |-> o # "ok", settings |-> new,
                           unlink |-> "none"]
          /\ file' = IF o = "ok" THEN json_dump(to_dict(new)) ELSE file
          /\ ui_queue' =
                 IF o = "ok"
                 THEN show_success(ui_queue,
                                   Message("Settings saved successfully!\nRestart the application to apply hotkey changes.",
                                           EmptyText))
                 ELSE show_error(ui_queue,
                                 Message("Failed to save settings: ", EmptyText))
    /\ UNCHANGED <<tmp_file, corrupted_file, rounds>>
    /\ UNCHANGED <<hotkey, app_pc, dialogs, tray_is_running, listener_pc, stop_event>>
    /\ UNCHANGED <<nthreads, pc, loc, calls, clipVars, svcVars, uiVars, keyVars, tickVars,
                   toastVars>>

---------------------------------------------------------------------------
(* The program: the service is constructed, the user copies, the hotkey fires *)

\* the service not yet constructed, no call made on it
InitClip ==
    /\ clipboard_backend = "unset"
    /\ probed = << >>
    /\ handles = {}
    /\ api_ret = NoApi

\* no worker thread started, nothing queued
InitWorkers ==
    /\ ui_queue = << >>
    /\ nthreads = 0
    /\ pc = [w \in Workers |-> "idle"]
    /\ loc = [w \in Workers |-> NoLoc]
    /\ calls = [w \in Workers |-> << >>]

InitSvc ==
    /\ svc_in = [text |-> EmptyText, language |-> "Portuguese"]
    /\ svc_out = NoOut

\* NotificationService(root): no toast; process_queue not yet called
InitUi ==
    /\ active_notifications = << >>
    /\ ui_pc = "off"
    /\ quit = FALSE
    /\ enqueued = [p \in Producers |-> << >>]
    /\ drained = << >>
    /\ touched = {}
    /\ tick_start = 0
    /\ tick_drained = 0
    /\ windows = {}
    /\ shutdown_pc = "idle"

\* HotkeyListener(hotkey, callback) constructed, run not yet called, no key held
InitListener ==
    /\ settings_hotkey = hotkey
    /\ app_pc = "init"
    /\ dialogs = << >>
    /\ tray_is_running = FALSE
    /\ listener_pc = "unstarted"
    /\ hk_keys = {}
    /\ stop_event = FALSE
    /\ hk_state = {}
    /\ keys_down = {}
    /\ callback_threads = << >>
    /\ dispatched = 0
    /\ completions = 0
    /\ ran_on = {}

Init ==
    /\ InitSvc
    /\ clipboard \in UserTexts
    /\ InitClip
    /\ current_settings \in AllSettings
    /\ InitWorkers
    /\ InitUi
    /\ hotkey = DefaultHotkey
    /\ InitListener
    /\ InitStore

Next ==
    \/ ClipboardService_init(InstalledOrNot)
    \/ UserCopy
    \/ hotkey_callback
    \/ \E w \in Workers :
          \/ Step1(w, NoFaults)
          \/ Step2(w, NoFaults)
          \/ Step3(w, NoFaults)
          \/ Step4(w, NoFaults)
          \/ Step5(w, NoFaults)
          \/ Step6(w, NoFaults)
          \/ Step7(w, NoFaults)

Spec == Init /\ [][Next]_vars

\* the use case run against collaborators that may raise at any call
FaultNext ==
    \/ ClipboardService_init(InstalledOrNot)
    \/ hotkey_callback
    \/ \E w \in Workers :
          \/ Step1(w, AnyFault)
          \/ Step2(w, AnyFault)
          \/ Step3(w, AnyFault)
          \/ Step4(w, AnyFault)
          \/ Step5(w, AnyFault)
          \/ Step6(w, AnyFault)
          \/ Step7(w, AnyFault)

FaultSpec == Init /\ [][FaultNext]_vars

\* the domain service on every request of the bounded input space
SvcInit ==
    /\ svc_in \in [text : AllTexts, language : SvcLanguages]
    /\ svc_out = NoOut
    /\ clipboard = EmptyText
    /\ InitClip
    /\ current_settings = NoLoc.settings
    /\ InitWorkers
    /\ InitUi
    /\ hotkey = DefaultHotkey
    /\ InitListener
    /\ InitStore

SvcNext == CallValidate \/ CallCorrect

SvcSpec == SvcInit /\ [][SvcNext]_vars

\* the clipboard service through its public methods, in every environment
ClipNext ==
    \/ ClipboardService_init(AllProbeOutcomes)
    \/ UserCopy
    \/ ApiGetText
    \/ ApiSetText
    \/ ApiPaste

ClipInit ==
    /\ InitSvc
    /\ clipboard \in UserTexts
    /\ InitClip
    /\ current_settings = NoLoc.settings
    /\ InitWorkers
    /\ InitUi
    /\ hotkey = DefaultHotkey
    /\ InitListener
    /\ InitStore

ClipSpec == ClipInit /\ [][ClipNext]_vars

\* the notification queue between its producers and the UI thread
UiInit ==
    /\ InitSvc
    /\ clipboard = EmptyText
    /\ InitClip
    /\ current_settings = NoLoc.settings
    /\ InitWorkers
    /\ InitUi
    /\ hotkey = DefaultHotkey
    /\ InitListener
    /\ InitStore

UiNext ==
    \/ \E p \in Producers : Produce(p)
    \/ process_queue
    \/ get_nowait
    \/ \E i \in 1 .. MaxToasts : destroy_notification(i)
    \/ _request_shutdown
    \/ _shutdown_clear

UiSpec == UiInit /\ [][UiNext]_vars

\* the main loop runs the timers it is given
UiLive == UiSpec /\ WF_vars(process_queue) /\ WF_vars(get_nowait)

\* run() on every configured hotkey: health checks, background services, main loop,
\* the tray's Exit
StartupInit ==
    /\ InitSvc
    /\ clipboard = EmptyText
    /\ InitClip
    /\ current_settings = NoLoc.settings
    /\ InitWorkers
    /\ InitUi
    /\ hotkey \in HotkeyStrings
    /\ InitListener
    /\ InitStore

StartupNext ==
    \/ run
    \/ _start_background_services
    \/ HotkeyListener_start
    \/ _show_startup_notification
    \/ (app_pc = "mainloop" /\ process_queue)
    \/ get_nowait
    \/ _request_shutdown
    \/ _shutdown_clear
    \/ poll_stop_event

StartupSpec == StartupInit /\ [][StartupNext]_vars

\* the listener thread is scheduled: its sleep of 0.1 s ends
StartupLive == StartupSpec /\ WF_vars(poll_stop_event)

\* the listener thread has just been started, with the clipboard service
\* constructed where every mechanism works, and no key is held
ServicesStarted ==
    /\ InitSvc
    /\ LET sel == _initialize_clipboard_backend([i \in 1 .. Len(Backends) |-> "ok"],
                                                EmptyText)
       IN  /\ clipboard_backend = sel.backend
           /\ probed = sel.probed
           /\ clipboard = sel.clipboard
           /\ handles = sel.handles
    /\ api_ret = NoApi
    /\ current_settings = [auto_paste |-> TRUE, show_notifications |-> FALSE,
                           prompt_language |-> "Portuguese"]
    /\ ui_queue = << >>
    /\ nthreads = 0
    /\ pc = [w \in 1 .. MaxTriggers |-> "idle"]
    /\ loc = [w \in 1 .. MaxTriggers |-> NoLoc]
    /\ calls = [w \in 1 .. MaxTriggers |-> << >>]
    /\ InitUi
    /\ settings_hotkey = hotkey
    /\ app_pc = "services"
    /\ dialogs = << >>
    /\ tray_is_running = TRUE
    /\ listener_pc = "starting"
    /\ hk_keys = {}
    /\ stop_event = FALSE
    /\ hk_state = {}
    /\ keys_down = {}
    /\ callback_threads = << >>
    /\ dispatched = 0
    /\ completions = 0
    /\ ran_on = {}
    /\ InitStore

\* the listener on every hotkey that passes the health check
KeyInit ==
    /\ hotkey \in {h \in HotkeyStrings : test_hotkey_format(h)}
    /\ ServicesStarted

\* keys go down and up, held keys repeat, callbacks run
KeyNext ==
    \/ HotkeyListener_start
    \/ \E k \in Keys : KeyDown(k)
    \/ \E k \in Keys : KeyUp(k)
    \/ _safe_callback

KeySpec == KeyInit /\ [][KeyNext]_vars

\* the listener on the default hotkey
ConcInit ==
    /\ hotkey = DefaultHotkey
    /\ ServicesStarted

\* the keys of the chord go down and up while the runs they trigger proceed
ConcNext ==
    \/ HotkeyListener_start
    \/ \E k \in {AltKey, SKey} : KeyDown(k)
    \/ \E k \in {AltKey, SKey} : KeyUp(k)
    \/ _safe_callback
    \/ \E w \in 1 .. MaxTriggers :
          \/ Step1(w, NoFaults)
          \/ Step2(w, NoFaults)
          \/ Step3(w, NoFaults)
          \/ Step4(w, NoFaults)
          \/ Step5(w, NoFaults)
          \/ Step6(w, NoFaults)
          \/ Step7(w, NoFaults)

ConcSpec == ConcInit /\ [][ConcNext]_vars

\* the settings are saved while the listener runs; the runs it triggers are
\* followed through their first two steps, where the notify value first shows
SettingsNext ==
    \/ HotkeyListener_start
    \/ \E k \in Keys : KeyDown(k)
    \/ \E k \in Keys : KeyUp(k)
    \/ _safe_callback
    \/ on_settings_saved
    \/ \E w \in 1 .. MaxTriggers :
          \/ Step1(w, NoFaults)
          \/ Step2(w, NoFaults)

SettingsSpec == ConcInit /\ [][SettingsNext]_vars

\* the repository over every state its file can be found in, read and written
StoreInit ==
    /\ InitSvc
    /\ clipboard = EmptyText
    /\ InitClip
    /\ current_settings = NoLoc.settings
    /\ InitWorkers
    /\ InitUi
    /\ hotkey = DefaultHotkey
    /\ InitListener
    /\ file \in FileContents
    /\ tmp_file \in {NoFile, Truncated}
    /\ corrupted_file = NoFile
    /\ store_ret = NoRet
    /\ save_pc = NoSave
    /\ rounds = << >>

StoreNext ==
    \/ load
    \/ save_changed
    \/ save_loaded
    \/ save_dump
    \/ save_replace

StoreSpec == StoreInit /\ [][StoreNext]_vars

---------------------------------------------------------------------------
(* Claims about the domain service (SvcSpec) *)

\* C6: whenever the generation capability raises, correct_text returns a result with
\* success = false, an empty corrected text and a non-empty error message that
\* carries the exception's message; the fault does not leave correct_text.
C6_FaultBecomesFailedResult ==
    (svc_out.op = "correct" /\ svc_out.invoked /\ svc_out.gen.raises) =>
        /\ ~svc_out.raised
        /\ ~svc_out.result.success
        /\ Len(svc_out.result.error_message) > 0
        /\ svc_out.result.error_message
               = "Text correction failed: " \o svc_out.gen.msg
        /\ svc_out.result.corrected_text = EmptyText

C6_Witness ==
    /\ svc_out.op = "correct"
    /\ svc_out.invoked
    /\ svc_out.gen.raises
    /\ svc_out.gen.msg = "quota exceeded"
    /\ svc_out.result.error_message = "Text correction failed: quota exceeded"

\* C7: for a request with non-blank text, success is true exactly when the capability
\* returned, without raising, a text that is non-blank after trimming; then the
\* corrected text is the trimmed output and the original text is the request's; a
\* response that is blank gives success = false, the empty-response error and an
\* empty corrected text.
C7_SuccessIffNonBlankResponse ==
    (/\ svc_out.op = "correct"
     /\ svc_in.language \in RequestLanguages
     /\ Strip(svc_in.text) # EmptyText) =>
        /\ svc_out.result.success
               <=> (~svc_out.gen.raises /\ Strip(svc_out.gen.text) # EmptyText)
        /\ svc_out.result.success =>
               /\ svc_out.result.corrected_text = Strip(svc_out.gen.text)
               /\ svc_out.result.original_text = svc_in.text
        /\ (~svc_out.gen.raises /\ Strip(svc_out.gen.text) = EmptyText) =>
               /\ ~svc_out.result.success
               /\ svc_out.result.error_message = "AI returned empty response"
               /\ svc_out.result.corrected_text = EmptyText

C7_Witness ==
    /\ svc_out.op = "correct"
    /\ svc_out.result.success
    /\ svc_out.gen.text # Strip(svc_out.gen.text)
    /\ svc_out.result.corrected_text = << Run("b", 1) >>
    /\ svc_in.text = << Run("a", MaxTextLen) >>

\* the categories of an invalid request
InvalidCategories(text, language) ==
    {c \in {"empty", "blank", "long", "language"} :
        \/ c = "empty" /\ text = EmptyText
        \/ c = "blank" /\ text # EmptyText /\ Strip(text) = EmptyText
        \/ c = "long" /\ TextLen(text) > MaxTextLen
        \/ c = "language" /\ language \notin RequestLanguages}

\* C8: validating a request returns rather than raises; the empty string, a
\* whitespace-only string, a text longer than 10,000 characters and a language
\* outside the supported set are each rejected with a non-empty reason that differs
\* from the reasons of the other three; a non-blank text of exactly 10,000
\* characters with a supported language is accepted.
C8_ValidateReturnsDistinctReasons ==
    svc_out.op = "validate" =>
        LET mine == InvalidCategories(svc_in.text, svc_in.language)
        IN  /\ ~svc_out.raised
            /\ mine # {} => (~svc_out.ok /\ svc_out.reason # "")
            /\ \A t \in AllTexts, g \in SvcLanguages :
                   LET other == InvalidCategories(t, g)
                   IN  (Cardinality(mine) = 1 /\ Cardinality(other) = 1 /\ mine # other)
                           => svc_out.reason # ValidateCall(t, g).reason
            /\ (mine = {} /\ TextLen(svc_in.text) = MaxTextLen) => svc_out.ok

\* C9 as stated: has_changes is true exactly when the trimmed original differs from
\* the trimmed corrected text, and a capability that echoes its input (the prompt it
\* is given) unchanged yields has_changes = false.
C9_EchoHasNoChanges ==
    (svc_out.op = "correct" /\ ~svc_out.raised) =>
        /\ svc_out.changed
               <=> (Strip(svc_in.text)
                        # (IF svc_out.result.success THEN Strip(svc_out.gen.text)
                           ELSE EmptyText))
        /\ (/\ svc_out.invoked
            /\ ~svc_out.gen.raises
            /\ svc_out.gen.text
                   = _build_correction_prompt(svc_in.text, svc_in.language))
               => ~svc_out.changed

\* C9 (amended): has_changes is true exactly when the trimmed original differs from
\* the trimmed corrected text; a capability that returns the request text unchanged
\* yields has_changes = false, and one that echoes the whole prompt, which starts
\* with the instruction template, yields has_changes = true.
C9_HasChangesIffTrimmedDiffer ==
    (svc_out.op = "correct" /\ ~svc_out.raised) =>
        /\ svc_out.changed
               <=> (Strip(svc_in.text)
                        # (IF svc_out.result.success THEN Strip(svc_out.gen.text)
                           ELSE EmptyText))
        /\ (svc_out.invoked /\ ~svc_out.gen.raises /\ svc_out.gen.text = svc_in.text)
               => ~svc_out.changed
        /\ (/\ svc_out.invoked
            /\ ~svc_out.gen.raises
            /\ svc_out.gen.text
                   = _build_correction_prompt(svc_in.text, svc_in.language))
               => svc_out.changed

C9_Witness ==
    /\ svc_out.op = "correct"
    /\ svc_out.result.success
    /\ svc_out.gen.text = svc_in.text
    /\ svc_in.text # Strip(svc_in.text)
    /\ ~svc_out.changed

\* C34: correct_text rejects a request whose text is empty after trimming at once:
\* the result has success = false, the error "Empty text provided" and an empty
\* corrected text, and the generation capability is not invoked.
C34_BlankTextIsRejectedWithoutGeneration ==
    (/\ svc_out.op = "correct"
     /\ svc_in.language \in RequestLanguages
     /\ Strip(svc_in.text) = EmptyText) =>
        /\ ~svc_out.raised
        /\ ~svc_out.invoked
        /\ ~svc_out.result.success
        /\ svc_out.result.error_message = "Empty text provided"
        /\ svc_out.result.corrected_text = EmptyText
        /\ svc_out.result.original_text = svc_in.text

\* correct_text has been called on a text of blanks only
C34_Witness ==
    /\ svc_out.op = "correct"
    /\ svc_in.language = "English"
    /\ svc_in.text # EmptyText
    /\ Strip(svc_in.text) = EmptyText
    /\ ~svc_out.invoked
    /\ svc_out.result.error_message = "Empty text provided"

---------------------------------------------------------------------------
(* Claims about the workflow (Spec, FaultSpec) *)

CallIndexes(w, op) == {i \in 1 .. Len(calls[w]) : calls[w][i].op = op}

Made(w, op) == {i \in CallIndexes(w, op) : ~calls[w][i].raised}

LastCall(w) == calls[w][Len(calls[w])]

Notifications(w) ==
    {i \in 1 .. Len(calls[w]) :
        calls[w][i].op \in {"show_info", "show_success", "show_warning", "show_error"}}

Queued(title, head, text) ==
    \E i \in 1 .. Len(ui_queue) :
        /\ ui_queue[i].title = title
        /\ ui_queue[i].message = Message(head, text)

\* the text the capability returned in this run
GenText(w) == calls[w][CHOOSE i \in CallIndexes(w, "generate_response") : TRUE].text

\* the run is over and went down the success path
Succeeded(w) == pc[w] = "done" /\ loc[w].result.success

PasteOnceAfterWrite(w) ==
    IF loc[w].settings.auto_paste
    THEN /\ Cardinality(Made(w, "paste")) = 1
         /\ \A i \in Made(w, "set_text"), j \in Made(w, "paste") : i < j
    ELSE CallIndexes(w, "paste") = {}

Faulted(w) ==
    \E i \in 1 .. Len(calls[w]) :
        calls[w][i].raised /\ calls[w][i].op # "generate_response"

\* C2 as stated: a fault raised by a collaborator in any step is caught at the top
\* level, the run surfaces exactly one error notification, and the worker thread
\* does not end abnormally.
C2_FaultGivesOneErrorNotification ==
    \A w \in Workers :
        Faulted(w) =>
            /\ pc[w] = "done"
            /\ Cardinality(Made(w, "show_error")) = 1

\* C2 (amended): a fault raised by a collaborator in any step is caught by the except
\* block of execute and the worker thread never ends abnormally; with notifications
\* enabled the run surfaces exactly one error notification, carrying the fault's
\* message, as its last call, unless that error notification itself raises: then none
\* is surfaced and the fault leaves execute and is caught by run_correction; with
\* notifications disabled the run surfaces no notification.
C2_FaultIsCaught ==
    \A w \in Workers :
        /\ pc[w] # "crashed"
        /\ Faulted(w) =>
               /\ pc[w] = "done"
               /\ IF ~loc[w].settings.show_notifications
                  THEN Made(w, "show_error") = {} /\ ~loc[w].escaped
                  ELSE IF loc[w].escaped
                  THEN /\ Made(w, "show_error") = {}
                       /\ LastCall(w).op = "show_error"
                       /\ LastCall(w).raised
                  ELSE /\ Cardinality(Made(w, "show_error")) = 1
                       /\ LastCall(w) = Call("show_error",
                                             "Unexpected error: " \o loc[w].exc,
                                             EmptyText, FALSE)
                       /\ Queued("Error", "Unexpected error: " \o loc[w].exc, EmptyText)

C2_Witness ==
    \E w \in Workers :
        /\ Faulted(w)
        /\ Len(calls[w]) > 1
        /\ calls[w][Len(calls[w]) - 1].op = "paste"
        /\ calls[w][Len(calls[w]) - 1].raised
        /\ LastCall(w) = Call("show_error", "Unexpected error: quota exceeded",
                              EmptyText, FALSE)
        /\ pc[w] = "done"

\* get_text returned an empty or whitespace-only string to this run
BlankRead(w) ==
    /\ Made(w, "get_text") # {}
    /\ Strip(calls[w][1].text) = EmptyText

EmptyWarning == "Clipboard is empty. Copy some text first!"

\* C3 as stated: a run whose get_text returned an empty or whitespace-only string
\* emits the clipboard-empty warning and stops; it makes no other call.
C3_BlankClipboardWarnsAndStops ==
    \A w \in Workers :
        BlankRead(w) =>
            /\ pc[w] = "done"
            /\ Len(calls[w]) = 2
            /\ calls[w][2] = Call("show_warning", EmptyWarning, EmptyText, FALSE)

\* C3 (amended): a run whose get_text returned an empty or whitespace-only string
\* stops there, after queueing the clipboard-empty warning if notifications are
\* enabled (nothing otherwise): it never invokes the capability, set_text or paste
\* and emits no processing, error or success notification.
C3_BlankClipboardStops ==
    \A w \in Workers :
        BlankRead(w) =>
            /\ pc[w] = "done"
            /\ IF loc[w].settings.show_notifications
               THEN /\ Len(calls[w]) = 2
                    /\ calls[w][2] = Call("show_warning", EmptyWarning, EmptyText, FALSE)
                    /\ Queued("Warning", EmptyWarning, EmptyText)
               ELSE Len(calls[w]) = 1

C3_Witness ==
    \E w \in Workers :
        /\ BlankRead(w)
        /\ calls[w][1].text # EmptyText
        /\ Len(calls[w]) = 2
        /\ calls[w][2].op = "show_warning"

\* the correction service returned success = false to this run
FailedCorrection(w) == Made(w, "correct_text") # {} /\ ~loc[w].result.success

\* C4 as stated: a run whose correction failed emits an error notification with the
\* result's error text and stops, without set_text, paste or a success notification.
C4_FailedCorrectionNotifiesAndStops ==
    \A w \in Workers :
        FailedCorrection(w) =>
            /\ pc[w] = "done"
            /\ LastCall(w) = Call("show_error",
                                  "Correction failed: " \o loc[w].result.error_message,
                                  EmptyText, FALSE)
            /\ CallIndexes(w, "set_text") = {}
            /\ CallIndexes(w, "paste") = {}
            /\ CallIndexes(w, "show_success") = {}

\* C4 (amended): a run whose correction failed stops there, after queueing an error
\* notification with the result's error text if notifications are enabled (nothing
\* otherwise): it never calls set_text or paste, none of its steps changes the
\* clipboard, and it emits no success notification.
C4_FailedCorrectionStops ==
    /\ [](\A w \in Workers :
              FailedCorrection(w) =>
                  /\ pc[w] = "done"
                  /\ CallIndexes(w, "set_text") = {}
                  /\ CallIndexes(w, "paste") = {}
                  /\ CallIndexes(w, "show_success") = {}
                  /\ IF loc[w].settings.show_notifications
                     THEN /\ LastCall(w)
                                 = Call("show_error",
                                        "Correction failed: "
                                            \o loc[w].result.error_message,
                                        EmptyText, FALSE)
                          /\ Cardinality(CallIndexes(w, "show_error")) = 1
                          /\ Queued("Error",
                                    "Correction failed: "
                                        \o loc[w].result.error_message,
                                    EmptyText)
                     ELSE LastCall(w).op = "correct_text")
    /\ [][\A w \in Workers :
              (pc[w] \in {"get_text", "show_info", "validate", "correct"}
                   /\ pc'[w] # pc[w])
                  => clipboard' = clipboard]_vars

C4_Witness ==
    \E w \in Workers :
        /\ FailedCorrection(w)
        /\ loc[w].result.error_message = "AI returned empty response"
        /\ LastCall(w).op = "show_error"
        /\ clipboard = loc[w].original_text

\* validate_request rejected the request of this run
RejectedRun(w) ==
    \E i \in Made(w, "validate_request") : calls[w][i].head # ""

Reason(w) == calls[w][CHOOSE i \in Made(w, "validate_request") : TRUE].head

\* C5 as stated: a run whose request is rejected by validate_request emits an error
\* notification with the reason and stops; the capability, set_text and paste are
\* not invoked and validation is not retried.
C5_RejectedRequestNotifiesAndStops ==
    \A w \in Workers :
        RejectedRun(w) =>
            /\ pc[w] = "done"
            /\ LastCall(w) = Call("show_error", "Validation error: " \o Reason(w),
                                  EmptyText, FALSE)
            /\ Cardinality(CallIndexes(w, "validate_request")) = 1
            /\ \A op \in {"generate_response", "correct_text", "set_text", "paste"} :
                   CallIndexes(w, op) = {}

\* C5 (amended): a run whose request is rejected by validate_request stops there,
\* after queueing an error notification with the reason if notifications are enabled
\* (nothing otherwise); the capability, set_text and paste are not invoked and
\* validation is not retried.
C5_RejectedRequestStops ==
    \A w \in Workers :
        RejectedRun(w) =>
            /\ pc[w] = "done"
            /\ Cardinality(CallIndexes(w, "validate_request")) = 1
            /\ Cardinality(CallIndexes(w, "get_text")) = 1
            /\ \A op \in {"generate_response", "correct_text", "set_text", "paste",
                           "show_success"} :
                   CallIndexes(w, op) = {}
            /\ IF loc[w].settings.show_notifications
               THEN /\ LastCall(w) = Call("show_error",
                                          "Validation error: " \o Reason(w),
                                          EmptyText, FALSE)
                    /\ Queued("Error", "Validation error: " \o Reason(w), EmptyText)
               ELSE LastCall(w).op = "validate_request"

C5_Witness ==
    \E w \in Workers :
        /\ RejectedRun(w)
        /\ Reason(w) = "Text is too long (max 10,000 characters)"
        /\ TextLen(loc[w].original_text) = MaxTextLen + 1
        /\ LastCall(w).op = "show_error"

\* the run wrote the corrected text, then called paste(), which reported failure
PasteFailed(w) ==
    /\ loc[w].settings.auto_paste
    /\ loc[w].set_ret
    /\ Made(w, "paste") # {}
    /\ ~loc[w].paste_ret

\* a failed paste is followed by step 7, is not retried, raises nothing, and leaves
\* the clipboard alone
PasteIsBestEffort ==
    /\ [](\A w \in Workers :
              (PasteFailed(w) /\ pc[w] # "paste") =>
                  /\ pc[w] \in {"success", "done"}
                  /\ Cardinality(CallIndexes(w, "paste")) = 1
                  /\ CallIndexes(w, "show_error") = {}
                  /\ loc[w].exc = ""
                  /\ ~loc[w].escaped)
    /\ [][\A w \in Workers :
              (pc[w] = "paste" /\ pc'[w] # "paste") => clipboard' = clipboard]_vars

\* C31 as stated: when auto-paste is enabled and paste() reports failure after the
\* corrected text was written, the run completes normally, the clipboard keeps the
\* corrected text, a success notification (not an error one) is emitted and paste
\* is not retried.
C31_FailedPasteStillNotifiesSuccess ==
    /\ PasteIsBestEffort
    /\ [](\A w \in Workers :
              (PasteFailed(w) /\ pc[w] = "done") => LastCall(w).op = "show_success")

\* C31 (amended): as stated, with the success notification emitted when
\* notifications are enabled, and no notification of the run's outcome at all when
\* they are disabled.
C31_FailedPasteDoesNotFailTheRun ==
    /\ PasteIsBestEffort
    /\ [](\A w \in Workers :
              (PasteFailed(w) /\ pc[w] = "done") =>
                  IF loc[w].settings.show_notifications
                  THEN LastCall(w).op = "show_success"
                  ELSE Notifications(w) = {})

C31_Witness ==
    \E w \in Workers :
        /\ PasteFailed(w)
        /\ pc[w] = "done"
        /\ loc[w].settings.show_notifications
        /\ clipboard = Strip(GenText(w))
        /\ LastCall(w).op = "show_success"
        /\ Cardinality(CallIndexes(w, "paste")) = 1

\* the terminal notifications the run has emitted: the empty-clipboard warning, an
\* error, the success message
Terminal(w) ==
    Made(w, "show_warning") \cup Made(w, "show_error") \cup Made(w, "show_success")

\* no terminal notification is followed by anything, there is at most one, and at
\* most one "processing" notification, emitted before the capability is invoked
NotificationOrder(w) ==
    /\ \A i \in Terminal(w) : i = Len(calls[w])
    /\ Cardinality(Made(w, "show_Info")) <= 1
    /\ \A i \in Made(w, "show_Info"), j \in CallIndexes(w, "generate_response") : i < j

\* C35 as stated: every run with notifications enabled emits exactly one terminal
\* notification (the empty-clipboard warning, an error or the success message), as
\* the last notification of the run, preceded by at most one "processing"
\* notification, which is emitted before the capability is invoked.
C35_EveryRunEndsWithOneNotification ==
    \A w \in Workers :
        /\ NotificationOrder(w)
        /\ (pc[w] = "done" /\ loc[w].settings.show_notifications) =>
               Cardinality(Terminal(w)) = 1

\* C35 (amended): as stated, unless the error notification of the except block
\* itself raises: that run emits no terminal notification.
C35_RunEndsWithOneNotification ==
    \A w \in Workers :
        /\ NotificationOrder(w)
        /\ (pc[w] = "done" /\ loc[w].settings.show_notifications) =>
               IF loc[w].escaped
               THEN Terminal(w) = {} /\ LastCall(w).op = "show_error" /\ LastCall(w).raised
               ELSE Cardinality(Terminal(w)) = 1

\* a run has emitted "processing", has invoked the capability, met a fault in
\* set_text and ended with the error notification
C35_Witness ==
    \E w \in Workers :
        /\ pc[w] = "done"
        /\ loc[w].settings.show_notifications
        /\ Made(w, "show_Info") # {}
        /\ Made(w, "generate_response") # {}
        /\ \E i \in CallIndexes(w, "set_text") : calls[w][i].raised
        /\ Terminal(w) = {Len(calls[w])}
        /\ LastCall(w).op = "show_error"

\* C36: a run calls set_text at most once, only after correct_text returned a
\* result with success = true, and only with a text that is not blank and equal to
\* its own trim: never an empty or whitespace-only string.
C36_WritesOnceAndOnlyCorrectedText ==
    \A w \in Workers :
        /\ Cardinality(CallIndexes(w, "set_text")) <= 1
        /\ \A i \in CallIndexes(w, "set_text") :
               /\ loc[w].result.success
               /\ \E j \in Made(w, "correct_text") : j < i
               /\ calls[w][i].text # EmptyText
               /\ Strip(calls[w][i].text) = calls[w][i].text
               /\ calls[w][i].text = loc[w].result.corrected_text

\* the capability returned a text with blanks around it, and the run has written
\* the trimmed text
C36_Witness ==
    \E w \in Workers :
        /\ Made(w, "set_text") # {}
        /\ GenText(w) # Strip(GenText(w))
        /\ \A i \in Made(w, "set_text") : calls[w][i].text = Strip(GenText(w))
        /\ clipboard = Strip(GenText(w))

\* C37: the success notification is emitted only for a run whose clipboard write
\* succeeded: a run whose set_text returned false in step 5 neither invokes
\* paste() nor emits the success notification.
C37_FailedWriteEndsTheRun ==
    \A w \in Workers :
        (/\ \E i \in CallIndexes(w, "set_text") : ~calls[w][i].raised
         /\ ~loc[w].set_ret)
        => /\ CallIndexes(w, "paste") = {}
           /\ CallIndexes(w, "show_success") = {}

---------------------------------------------------------------------------
(* Claims about the clipboard service (ClipSpec) *)

AllProbesFailed ==
    /\ clipboard_backend # "unset"
    /\ \A i \in 1 .. Len(probed) : ~ProbePasses(probed[i].outcome)

\* C10: if every candidate fails its self-test the backend is "none" and stays
\* "none", without another probe; every get_text() then returns the empty string
\* and every set_text(x) returns false and leaves the clipboard alone; no probe
\* fault leaves the selector.
C10_NoBackendDegrades ==
    /\ [](AllProbesFailed =>
              /\ clipboard_backend = "none"
              /\ Len(probed) = Len(Backends)
              /\ api_ret.op = "get_text" => api_ret.text = EmptyText
              /\ api_ret.op = "set_text" => ~api_ret.ok)
    /\ [][clipboard_backend = "none" =>
              /\ clipboard_backend' = "none"
              /\ probed' = probed
              /\ (api_ret'.op = "set_text" /\ api_ret' # api_ret)
                     => clipboard' = clipboard]_vars

C10_Witness ==
    /\ clipboard_backend = "none"
    /\ \E i \in 1 .. Len(probed) : probed[i].outcome = "raises"
    /\ api_ret.op = "set_text"
    /\ api_ret.text # EmptyText
    /\ clipboard # EmptyText

\* C11: the selector commits to the first candidate, in the order pyclip, xclip,
\* xsel, pyperclip, whose probe succeeds: the candidates before it were each probed
\* once, in order, and failed or raised, and no candidate after it is probed.
C11_FirstPassingCandidateIsSelected ==
    clipboard_backend # "unset" =>
        /\ Len(probed) \in 1 .. Len(Backends)
        /\ \A i \in 1 .. Len(probed) : probed[i].name = Backends[i]
        /\ \A i \in 1 .. Len(probed) - 1 : ~ProbePasses(probed[i].outcome)
        /\ IF ProbePasses(probed[Len(probed)].outcome)
           THEN clipboard_backend = Backends[Len(probed)]
           ELSE clipboard_backend = "none" /\ Len(probed) = Len(Backends)

C11_Witness ==
    /\ clipboard_backend = "xsel"
    /\ Len(probed) = 3
    /\ probed[1].outcome = "copy_raises"
    /\ probed[2].outcome = "raises"

\* C12: whatever backend was selected, a call whose mechanism fails at run time (an
\* exception, a non-zero exit status, a timeout) returns: get_text the empty string
\* and set_text false, with the clipboard left as it was.
C12_RuntimeFailureDegrades ==
    /\ [](api_ret.r \notin {"ok", "none"} =>
              /\ api_ret.op = "get_text" => api_ret.text = EmptyText
              /\ api_ret.op = "set_text" => ~api_ret.ok)
    /\ [][(api_ret' # api_ret /\ api_ret'.r \notin {"ok", "none"})
              => clipboard' = clipboard]_vars

C12_Witness ==
    /\ clipboard_backend = "xclip"
    /\ api_ret.op = "get_text"
    /\ api_ret.r = "nonzero"
    /\ clipboard # EmptyText
    /\ api_ret.text = EmptyText

\* C27: a candidate passes its startup health check only if a sentinel written
\* through it was read back unchanged: the selected backend is one whose probe
\* wrote the sentinel and read the same text back.
C27_SelectedBackendRoundTrippedSentinel ==
    clipboard_backend \notin {"unset", "none"} =>
        SentinelReadBack(probed[Len(probed)].name, probed[Len(probed)].outcome)

\* the library handle the service needs for a backend
HandlesOf(backend) ==
    CASE backend = "pyclip" -> {"_pyclip"}
      [] backend = "pyperclip" -> {"_pyperclip"}
      [] OTHER -> {}

\* C33: failed probes leak no partial state: once the selection is over the service
\* holds the library handle of the selected candidate and no other, and none at
\* all when the selected candidate is a tool or when none was selected.
C33_FailedProbesLeaveNothing ==
    clipboard_backend # "unset" => handles = HandlesOf(clipboard_backend)

\* C38: selecting the backend at construction leaves the user's clipboard as it
\* was: the content held after the probes, which the first get_text reads, is the
\* content held before them.
C38_SelectionKeepsTheClipboard ==
    [][(clipboard_backend = "unset" /\ clipboard_backend' # "unset")
          => clipboard' = clipboard]_vars

---------------------------------------------------------------------------
(* Claims about the notification queue and the toasts (UiSpec, UiLive) *)

\* the items of producer p in a sequence of items, in the order they have there
FromProducer(seq, p) ==
    SelectSeq(seq, LAMBDA it : it.message.head = ItemOf(p, 1).head)

RECURSIVE TotalEnqueued(_)
TotalEnqueued(p) == IF p = 0 THEN 0 ELSE Len(enqueued[p]) + TotalEnqueued(p - 1)

\* C13: for any interleaving of producers, every item put on the queue is either
\* still queued or has been taken off exactly once, the items of each producer in
\* the order it put them; and, while the main loop runs, the drain loop ends up
\* having taken off as many items as were put, leaving the queue empty.
C13_DrainedExactlyOnceInProducerOrder ==
    /\ [](/\ Len(drained) + Len(ui_queue) = TotalEnqueued(MaxProducers)
          /\ \A p \in Producers : FromProducer(drained \o ui_queue, p) = enqueued[p])
    /\ <>[](quit \/ (ui_queue = << >> /\ Len(drained) = TotalEnqueued(MaxProducers)))

C13_Witness ==
    /\ ~quit
    /\ ui_queue = << >>
    /\ Len(drained) = 3
    /\ Len(enqueued[1]) = 2
    /\ Len(enqueued[2]) = 1
    /\ drained[1] = enqueued[1][1]
    /\ drained[2] = enqueued[2][1]
    /\ drained[3] = enqueued[1][2]

\* C14: toasts and the list of active toasts are created, changed and destroyed by
\* the UI thread only; no other thread (worker, listener, tray-menu callback) ever
\* renders or clears a toast.
C14_OnlyUiThreadTouchesToasts == \A t \in touched : t.thread = "ui"

\* C15: no two toasts that are visible at the same time are at the same position.
C15_VisibleToastsDoNotOverlap ==
    \A i, j \in 1 .. Len(active_notifications) :
        i # j => active_notifications[i].y_offset # active_notifications[j].y_offset

\* the positions of k toasts stacked without a gap
StackSlots(k) == {(i - 1) * (NotificationHeight + StackGap) : i \in 1 .. k}

\* C28: when a toast expires or is clicked it leaves the active toasts and the
\* remaining ones reflow: after the removal the k visible toasts are at the
\* contiguous stack positions 0 .. k-1.
C28_RemainingToastsReflow ==
    [][Len(active_notifications') = Len(active_notifications) - 1 =>
           {active_notifications'[i].y_offset : i \in 1 .. Len(active_notifications')}
               = StackSlots(Len(active_notifications'))]_vars

\* C29: a drain tick does a bounded amount of work: one run of process_queue
\* renders no more than a number of items fixed when it starts (here: the items
\* queued at that moment), whatever producers enqueue while it runs.
C29_DrainTickIsBounded == tick_drained <= tick_start

\* C30: the drain loop is scheduled for the whole lifetime of the UI loop: every
\* run of process_queue that ends, whatever it dequeued and whether or not a
\* rendering failed, has scheduled the next run (which the main loop runs unless
\* root.quit() has ended it); so every notification put on the queue, before the
\* first tick or after it, is eventually taken off and handed to rendering.
C30_EveryRunSchedulesTheNext ==
    /\ [][(ui_pc = "draining" /\ ui_pc' # "draining") =>
              (ui_pc' = "scheduled" \/ quit)]_vars
    /\ []<>(quit \/ Len(drained) = TotalEnqueued(MaxProducers))

\* two items were taken off, the rendering of both failed, and the run that met
\* the empty queue has scheduled the next one
C30_Witness ==
    /\ ui_pc = "scheduled"
    /\ ~quit
    /\ Len(drained) = 2
    /\ ui_queue = << >>
    /\ Len(active_notifications) = 2
    /\ \A i \in 1 .. Len(active_notifications) : ~active_notifications[i].bound

---------------------------------------------------------------------------
(* The hotkey listener *)

\* the whole chord is physically held
ChordHeld(down) == hk_keys # {} /\ hk_keys \subseteq down

\* C16: the callback is dispatched exactly once per press-release cycle of the
\* configured chord: as often as a key-down has completed the chord on the
\* keyboard, on the very event that completes it, and never on an event that finds
\* the chord already held (a repeated key-down, or any other key), so that a second
\* dispatch needs a member key released and the chord completed anew
C16_DispatchedOncePerPressReleaseCycle ==
    /\ [](dispatched = completions)
    /\ [][dispatched' # dispatched =>
              /\ dispatched' = dispatched + 1
              /\ ~ChordHeld(keys_down)
              /\ ChordHeld(keys_down')]_vars
    /\ [][ChordHeld(keys_down) => dispatched' = dispatched]_vars

\* the chord has been completed, released and completed again, and is held
C16_Witness ==
    /\ dispatched = 2
    /\ completions = 2
    /\ ChordHeld(keys_down)
    /\ XKey \in keys_down

\* some run is inside its generation call
GenerationInFlight == \E w \in DOMAIN pc : pc[w] = "correct"

\* C17: on each trigger the callback runs on a new thread, which is neither the
\* listener thread nor the UI thread; the listener thread never runs the callback
\* or the workflow it starts and never waits for them, so that while a run's
\* generation call is in flight the listener still takes key events
C17_CallbackRunsOffTheListenerThread ==
    /\ \A r \in ran_on :
          r.op = "hotkey_callback" => r.thread \notin {"listener", "ui"}
    /\ \A i \in 1 .. Len(callback_threads) :
          callback_threads[i] \notin {"listener", "ui"}
    /\ (listener_pc = "running" /\ GenerationInFlight) =>
          /\ ListenerFree
          /\ \A k \in keys_down : ENABLED KeyUp(k)
          /\ \A k \in hk_keys :
                (hk_keys \subseteq keys_down \/ dispatched < MaxTriggers)
                    => ENABLED KeyDown(k)

\* the first run is inside its generation call when the chord is completed again
\* and dispatched a second time
C17_Witness ==
    /\ pc[1] = "correct"
    /\ dispatched = 2
    /\ callback_threads # << >>
    /\ [op |-> "hotkey_callback", thread |-> "_safe_callback"] \in ran_on

\* the step of run w that its position calls for can be taken
CanStep(w) ==
    /\ pc[w] = "get_text" => ENABLED Step1(w, NoFaults)
    /\ pc[w] = "show_info" => ENABLED Step2(w, NoFaults)
    /\ pc[w] = "validate" => ENABLED Step3(w, NoFaults)
    /\ pc[w] = "correct" => ENABLED Step4(w, NoFaults)
    /\ pc[w] = "set_text" => ENABLED Step5(w, NoFaults)
    /\ pc[w] = "paste" => ENABLED Step6(w, NoFaults)
    /\ pc[w] = "success" => ENABLED Step7(w, NoFaults)

\* C18: executions are not deduplicated, queued or serialized: every trigger has
\* its own execution, started or about to be started by its callback thread,
\* whatever the earlier executions are doing; and every execution can take its
\* next step, clipboard reads and writes included, wherever the others stand (no
\* lock is held around the clipboard)
C18_EveryTriggerStartsItsOwnExecution ==
    /\ nthreads + Len(callback_threads) = dispatched
    /\ \A w \in DOMAIN pc : w <= nthreads <=> pc[w] # "idle"
    /\ callback_threads # << >> => ENABLED _safe_callback
    /\ \A w \in DOMAIN pc : CanStep(w)

\* two executions are in flight at once, both between their clipboard read and
\* their clipboard write
C18_Witness ==
    /\ dispatched = 2
    /\ pc[1] = "set_text"
    /\ pc[2] = "set_text"
    /\ Len(calls[1]) > 0
    /\ Len(calls[2]) > 0
    /\ calls[1][1].op = "get_text"
    /\ calls[2][1].op = "get_text"

\* C19: chord normalization is idempotent: the listener runs on a hotkey whose
\* normalized form is left as it is by a second normalization
C19_NormalizationIsIdempotent ==
    listener_pc = "running" =>
        _normalize_hotkey(_normalize_hotkey(hotkey)) = _normalize_hotkey(hotkey)

\* a fault of the listener has shown: startup has met a hotkey that does not parse,
\* or installing the OS hook has failed
ListenerFault ==
    \/ app_pc # "init" /\ ~test_hotkey_format(hotkey)
    \/ listener_pc = "failed"

\* C20: a listener fault is fatal to startup and surfaced before the listener
\* thread starts: startup is aborted with the error dialog shown, the listener
\* thread is never started and no background service runs
C20_ListenerFaultsAbortStartup ==
    ListenerFault =>
        /\ app_pc = "aborted"
        /\ \E i \in 1 .. Len(dialogs) : dialogs[i] = "Startup Error"
        /\ listener_pc = "unstarted"
        /\ ~tray_is_running

\* C21: the listener keeps running until stop() is called: its thread leaves the
\* running state only with the stop event set, and then as stopped (hook removed,
\* is_running false); and once the stop event is set on a running listener the
\* poll loop sees it at its next turn and the thread stops
C21_ListenerRunsUntilStopped ==
    /\ [][(listener_pc = "running" /\ listener_pc' # "running") =>
              (stop_event /\ listener_pc' = "stopped")]_vars
    /\ [](listener_pc = "stopped" => stop_event)
    /\ [][stop_event => stop_event']_vars
    /\ (stop_event /\ listener_pc = "running") ~> (listener_pc = "stopped")

\* the tray's Exit has stopped a running listener
C21_Witness ==
    /\ listener_pc = "stopped"
    /\ stop_event
    /\ quit
    /\ ~tray_is_running

\* C39: when shutdown is requested at any point after the listener thread was
\* started, whether start has reached its poll loop or not, the stop event gets set
\* and the listener thread then stops the OS hook and terminates.
C39_ShutdownStopsTheListener ==
    /\ [](quit /\ listener_pc \in {"starting", "running"} => stop_event)
    /\ (quit /\ listener_pc = "running") ~> (listener_pc = "stopped")

---------------------------------------------------------------------------
(* Claims about the settings repository (StoreSpec) *)

\* load has returned or raised, and the file is as load found it
Loaded == store_ret.op = "load" /\ save_pc.at = "idle"

\* C22: when the settings file does not exist, load returns an AppSettings object
\* that satisfies the settings invariant (non-blank hotkey, supported language),
\* and does not raise.
C22_MissingFileLoadsDefaults ==
    (Loaded /\ file = NoFile) =>
        /\ ~store_ret.raised
        /\ AppSettings_post_init(store_ret.settings)

\* C23: when the settings file is not JSON, load leaves it as it is, keeps a copy
\* of it under the .corrupted sibling (unless the copy fails), returns an
\* AppSettings object that satisfies the invariant, and does not raise.
C23_MalformedFileIsKeptAndDefaultsLoaded ==
    (Loaded /\ file = Malformed) =>
        /\ corrupted_file \in {Malformed, NoFile}
        /\ ~store_ret.raised
        /\ AppSettings_post_init(store_ret.settings)

\* a save has been called and has returned or raised
Saved == store_ret.op = "save" /\ save_pc.at = "idle"

\* the text save writes for the object it was given
NewContent == json_dump(to_dict(save_pc.settings))

\* from the call of save on, settings.json holds the whole text it held at the call
\* or the whole new text, and the new text only once save has returned
AtomicReplace ==
    /\ save_pc # NoSave => file \in {save_pc.old, NewContent}
    /\ save_pc.at # "idle" => file = save_pc.old
    /\ (Saved /\ ~store_ret.raised) => (file = NewContent /\ tmp_file = NoFile)
    /\ (Saved /\ store_ret.raised) => file = save_pc.old

\* C24 (as stated): settings.json holds the whole previous or the whole new text
\* at every point of save; if a step of save fails the file is unchanged, the
\* temporary file is removed and an error is raised.
C24_FailedSaveLeavesNoTemporaryFile ==
    /\ AtomicReplace
    /\ (Saved /\ store_ret.raised) => tmp_file = NoFile

\* C24 (amended): settings.json holds the whole previous or the whole new text at
\* every point of save; if a step of save fails the file is unchanged, an error is
\* raised, and the temporary file is removed unless removing it fails too.
C24_SaveReplacesAtomically ==
    /\ AtomicReplace
    /\ (Saved /\ store_ret.raised) =>
           (tmp_file = NoFile \/ store_ret.unlink = "raises")

\* a save has failed after writing its temporary file: settings.json still holds
\* its previous text, which is not the new one, and the temporary file is gone
C24_Witness ==
    /\ Saved
    /\ store_ret.raised
    /\ store_ret.unlink = "ok"
    /\ tmp_file = NoFile
    /\ file = save_pc.old
    /\ file # NewContent
    /\ file.kind = "json"

\* C25: settings round trip: when save(load()) is performed and then performed
\* again, settings.json holds after the second save, byte for byte, the text it
\* held after the first, whatever it held before the first.
C25_SecondRoundTripChangesNothing ==
    Len(rounds) >= 2 => rounds[2] = rounds[1]

\* two round trips have been made from a file that held a hotkey of its own, and
\* the file holds what the second save wrote
C25_Witness ==
    /\ Len(rounds) = 2
    /\ Saved
    /\ ~store_ret.raised
    /\ file = rounds[2]
    /\ file.data["hotkey"] = << "f", "9" >>
    /\ file.data["prompt_language"] = "English"

\* the members of a settings file that AppSettings knows
KnownFields == {"hotkey", "auto_paste", "show_notifications", "prompt_language"}

\* a well-formed settings file: a JSON object whose known members, where present,
\* hold values AppSettings accepts
WellFormed(content) ==
    /\ content.kind = "json"
    /\ "hotkey" \in DOMAIN content.data => StrStrip(content.data["hotkey"]) # << >>
    /\ "prompt_language" \in DOMAIN content.data =>
           content.data["prompt_language"] \in {"Portuguese", "English"}

\* C26: loading a well-formed settings file that lacks known fields and/or holds
\* unknown ones returns settings in which every known field present has the file's
\* value and every known field missing has its default, and which satisfy the
\* AppSettings invariant; unknown fields have no effect.
C26_PartialFileIsCompletedWithDefaults ==
    (Loaded /\ WellFormed(file)) =>
        /\ ~store_ret.raised
        /\ AppSettings_post_init(store_ret.settings)
        /\ \A k \in KnownFields \cap DOMAIN file.data :
               store_ret.settings[k] = file.data[k]
        /\ \A k \in (KnownFields \ DOMAIN file.data) \ {"prompt_language"} :
               store_ret.settings[k] = DEFAULT_SETTINGS[k]

---------------------------------------------------------------------------
(* Claims about a settings save while the program runs (SettingsSpec) *)

\* the chord the listener was created with
CreatedChord == HotKey_parse(_normalize_hotkey(hotkey)).keys

\* C32: after a settings save that changes the hotkey the running listener is not
\* rebound: it keeps the chord it was created with, triggers on that chord and on
\* no other until it is re-created, while a run started by a trigger takes the
\* auto-paste, notify and language values that are current at that moment, the
\* saved ones, and keeps them to its end.
C32_SavedHotkeyNeedsNewListener ==
    /\ [](listener_pc = "running" => hk_keys = CreatedChord)
    /\ [][hotkey' = hotkey]_vars
    /\ [][dispatched' # dispatched =>
              (CreatedChord \subseteq keys_down' /\ ~(CreatedChord \subseteq keys_down))]_vars
    /\ [][\A w \in 1 .. MaxTriggers :
              /\ (pc[w] = "idle" /\ pc'[w] # "idle") =>
                     loc'[w].settings = current_settings
              /\ pc[w] # "idle" => loc'[w].settings = loc[w].settings]_vars

\* the hotkey "alt+x", English and notifications on were saved; then alt+s, the
\* chord of the listener, started a run, which works with English and has emitted
\* its "processing" notification; the keys of the saved chord are held and have
\* started nothing
C32_Witness ==
    /\ store_ret.op = "save"
    /\ settings_hotkey = OtherHotkey
    /\ hotkey = DefaultHotkey
    /\ hk_keys = {AltKey, SKey}
    /\ keys_down = {AltKey, XKey}
    /\ dispatched = 1
    /\ nthreads = 1
    /\ loc[1].settings.prompt_language = "English"
    /\ loc[1].settings.show_notifications
    /\ pc[1] = "validate"
    /\ Made(1, "show_Info") # {}
====
